---- MODULE Spec2Model ----
(***************************************************************************)
(* Model of the command engine of the Redis clone: the keyspace            *)
(* (string-commands.ts, stream-commands.ts, sortedset-commands.ts), the    *)
(* dispatcher with its transaction queue and server-wide EXEC flag         *)
(* (commands.ts, second class of the file) and the propagation of writes   *)
(* to the replica links (replication-manager.ts).                          *)
(*                                                                         *)
(* One TLA+ step is one run of the event loop: a data event of a client    *)
(* connection handled up to its first timer wait, the firing of the 10 ms  *)
(* poll timer of a blocked XREAD, a PSYNC, a close of a link or a tick of  *)
(* the wall clock.  Promise continuations (await on an already settled     *)
(* promise) run before any other event, so they are part of the same step. *)
(***************************************************************************)
EXTENDS Integers, Sequences, FiniteSets, TLC

\* ------------------------------------------------------------------------
\* Bounds of the model
\* ------------------------------------------------------------------------
MaxCmds == 6
MaxTxnCmds == 5
MaxReplyCmds == 3
MaxFrames == 2
MaxLinkCmds == 3
MaxApplyCmds == 3
MaxPropagated == 2
MaxPieces == 6
MaxFrameBytes == 30
MaxKeyCmds == 4
MaxReplCmds == 4
MaxConnCmds == 3
MaxStreamCmds == 4
MaxNumCmds == 3
MaxClock == 3
MaxQueue == 2

Conns == {"A", "B"}
Links == {"r1", "r2"}
\* the one link of the specifications with a single replica
FirstLink == {"r1"}
LinkBefore(m, l) == m = "r1" /\ l = "r2"
Keys == {"k"}

\* NaN, as produced by parseInt / parseFloat / Number on non-numeric text
NaN == -1

\* ------------------------------------------------------------------------
\* Values
\* ------------------------------------------------------------------------
\* A JavaScript string held as a value: the decimal form of n ("int") or a
\* text that does not start with a digit ("text").
IntStr(n) == [kind |-> "int", n |-> n]
TextStr == [kind |-> "text", n |-> 0]
\* a text of one character outside ASCII, two bytes in UTF-8 (only its
\* propagation is modelled: on the client connection main.ts also counts it
\* by String.length and answers the byte left over with a second, error reply)
WideStr == [kind |-> "wide", n |-> 0]

\* a text that starts with the decimal form of n and goes on with letters,
\* such as 12abc
PrefixStr(n) == [kind |-> "prefix", n |-> n]

\* 9223372036854775807.  The numbers of the model are cut off far below it:
\* this value stands for it, and every other number of the model is smaller.
Int64Max == 1000

\* The JavaScript number (a double) that a decimal text of the integer n
\* gives: exact for small n, and 2^63 for 2^63 - 1, which no double equals.
Double(n) == IF n = Int64Max THEN Int64Max + 1 ELSE n

\* x + 1 on doubles: 2^63 + 1 rounds back to 2^63
PlusOne(x) == IF x > Int64Max THEN x ELSE x + 1

\* parseInt(value) on a stored string: the leading digits are converted and
\* whatever follows them is ignored
parseInt(v) == IF v.kind \in {"int", "prefix"} THEN Double(v.n) ELSE NaN

\* Number.prototype.toString
toString(n) == IntStr(n)

\* A stream entry {id, fields}; the id string "<ms>-<seq>" is kept as the
\* pair that id.split("-").map(Number) recovers from it.
StreamEntry(ms, seq) == [id |-> <<ms, seq>>]

\* KeyValueEntry {value, expiry?, type?}; present = FALSE is a key that is
\* not in the Map.  type "undefined" is the entry written by SET and INCR.
Absent ==
  [present |-> FALSE, type |-> "undefined", str |-> TextStr,
   stream |-> <<>>, zset |-> <<>>, expiry |-> 0]

StringEntry(v, expiry) ==
  [present |-> TRUE, type |-> "undefined", str |-> v,
   stream |-> <<>>, zset |-> <<>>, expiry |-> expiry]

StreamValue(entries) ==
  [present |-> TRUE, type |-> "stream", str |-> TextStr,
   stream |-> entries, zset |-> <<>>, expiry |-> 0]

ZSetValue(pairs) ==
  [present |-> TRUE, type |-> "zset", str |-> TextStr,
   stream |-> <<>>, zset |-> pairs, expiry |-> 0]

\* ------------------------------------------------------------------------
\* Commands and replies
\* ------------------------------------------------------------------------
NoId == [form |-> "none", ms |-> 0, seq |-> 0]
ExplicitId(ms, seq) == [form |-> "explicit", ms |-> ms, seq |-> seq]
AutoSeqId(ms) == [form |-> "autoseq", ms |-> ms, seq |-> 0]
AutoId == [form |-> "auto", ms |-> 0, seq |-> 0]
DollarId == [form |-> "dollar", ms |-> 0, seq |-> 0]

NoPx == -2
NoBlock == -1

Cmd(op, key, val, px, id, pairs, block) ==
  [op |-> op, key |-> key, val |-> val, px |-> px, id |-> id,
   pairs |-> pairs, block |-> block]

CmdSet(k, v) == Cmd("SET", k, v, NoPx, NoId, <<>>, NoBlock)
CmdSetPx(k, v, px) == Cmd("SET", k, v, px, NoId, <<>>, NoBlock)
CmdGet(k) == Cmd("GET", k, TextStr, NoPx, NoId, <<>>, NoBlock)
CmdIncr(k) == Cmd("INCR", k, TextStr, NoPx, NoId, <<>>, NoBlock)
CmdType(k) == Cmd("TYPE", k, TextStr, NoPx, NoId, <<>>, NoBlock)
CmdKeys == Cmd("KEYS", "*", TextStr, NoPx, NoId, <<>>, NoBlock)
\* PSYNC with its arguments
CmdPsync(args) == Cmd("PSYNC", "", TextStr, NoPx, NoId, args, NoBlock)
CmdXAdd(k, id) == Cmd("XADD", k, TextStr, NoPx, id, <<>>, NoBlock)
CmdXRead(k, id, block) == Cmd("XREAD", k, TextStr, NoPx, id, <<>>, block)
CmdZAdd(k, pairs) == Cmd("ZADD", k, TextStr, NoPx, NoId, pairs, NoBlock)
\* ZRANGE key start stop, ZRANK key member, ZREM key member
RangeArgs(start, stop) == [form |-> "range", ms |-> start, seq |-> stop]
CmdZRange(k, start, stop) ==
  Cmd("ZRANGE", k, TextStr, NoPx, RangeArgs(start, stop), <<>>, NoBlock)
CmdZRank(k, m) ==
  Cmd("ZRANK", k, TextStr, NoPx, NoId, <<[member |-> m, score |-> 0]>>, NoBlock)
CmdZRem(k, m) ==
  Cmd("ZREM", k, TextStr, NoPx, NoId, <<[member |-> m, score |-> 0]>>, NoBlock)
CmdMulti == Cmd("MULTI", "", TextStr, NoPx, NoId, <<>>, NoBlock)
CmdExec == Cmd("EXEC", "", TextStr, NoPx, NoId, <<>>, NoBlock)
CmdDiscard == Cmd("DISCARD", "", TextStr, NoPx, NoId, <<>>, NoBlock)
\* WAIT numreplicas timeout: the two arguments as text, read by parseInt
CmdWait(n, timeout) == Cmd("WAIT", "", IntStr(n), NoPx, NoId, <<>>, timeout)
\* REPLCONF GETACK *, as the primary writes it to a replica
CmdGetAck == Cmd("REPLCONF", "GETACK", TextStr, NoPx, NoId, <<>>, NoBlock)
CmdInfo == Cmd("INFO", "replication", TextStr, NoPx, NoId, <<>>, NoBlock)
CmdPing == Cmd("PING", "", TextStr, NoPx, NoId, <<>>, NoBlock)
\* SUBSCRIBE channel, UNSUBSCRIBE channel, PUBLISH channel message
CmdSubscribe(ch) == Cmd("SUBSCRIBE", ch, TextStr, NoPx, NoId, <<>>, NoBlock)
CmdUnsubscribe(ch) == Cmd("UNSUBSCRIBE", ch, TextStr, NoPx, NoId, <<>>, NoBlock)
\* UNSUBSCRIBE with an empty argument list
NoArgs == "<no arguments>"
CmdUnsubscribeAll == CmdUnsubscribe(NoArgs)
CmdPublish(ch, m) == Cmd("PUBLISH", ch, m, NoPx, NoId, <<>>, NoBlock)

Reply(kind, s, n, m, items, keys) ==
  [kind |-> kind, s |-> s, n |-> n, m |-> m, items |-> items, keys |-> keys]

\* parser: encodeSimpleString, encodeError, encodeInteger, encodeBulkString
encodeSimpleString(s) == Reply("simple", s, 0, 0, <<>>, {})
encodeError(msg) == Reply("error", msg, 0, 0, <<>>, {})
encodeInteger(n) == Reply("integer", "", n, 0, <<>>, {})
encodeBulkString(v) == Reply("bulk", v.kind, v.n, 0, <<>>, {})
NullBulk == Reply("nullbulk", "", 0, 0, <<>>, {})
\* encodeBulkString of a stream id "<ms>-<seq>"
encodeBulkId(id) == Reply("bulkid", "", id[1], id[2], <<>>, {})
\* encodeBulkString applied to a value that is not a string (an array, a Map)
encodeBulkGarbage == Reply("bulk", "garbage", 0, 0, <<>>, {})
\* "*0\r\n" and "*-1\r\n"
EmptyArray == Reply("array", "", 0, 0, <<>>, {})
NullArray == Reply("nullarray", "", 0, 0, <<>>, {})
\* encodeArray of a list of keys (the order of the Map is not kept); of no
\* key it is "*0\r\n"
encodeKeyArray(ks) ==
  IF ks = {} THEN EmptyArray ELSE Reply("array", "keys", 0, 0, <<>>, ks)
\* encodeArray of a list of member names, each as a bulk string
encodeBulkMember(m) == Reply("bulk", m, 0, 0, <<>>, {})
encodeArray(members) ==
  Reply("array", "", 0, 0,
        [i \in 1..Len(members) |-> encodeBulkMember(members[i])], {})
\* handleSubscribe / handleUnsubscribe: "*3\r\n", the word, the channel and
\* the size of the connection's set
encodeSubscription(word, channel, count) ==
  Reply("array", "", 0, 0,
        <<encodeBulkMember(word), encodeBulkMember(channel), encodeInteger(count)>>, {})
\* encodePublishMessage: ["message", channel, message]
encodePublishMessage(channel, message) ==
  Reply("array", "", 0, 0,
        <<encodeBulkMember("message"), encodeBulkMember(channel),
          encodeBulkString(message)>>, {})
\* the line "+FULLRESYNC <replid> <offset>" of handlePsync
encodeFullResync(offset) == Reply("simple", "FULLRESYNC", offset, 0, <<>>, {})
\* the bulk string of buildReplicationInfo, by its master_repl_offset line
encodeReplicationInfo(offset) == Reply("bulk", "info", offset, 0, <<>>, {})
\* the snapshot of sendEmptyRDBFile: the header "$<length>\r\n" and the
\* length bytes of the file, as pieces written to the socket
RdbLength == 88
RdbHeader(n) == Reply("rdbheader", "", n, 0, <<>>, {})
RdbPayload(n) == Reply("rdbpayload", "", n, 0, <<>>, {})
\* a sendEmptyRDBFile that ends the file with CRLF as a bulk string would
sendEmptyRDBFileWithCRLF(out) ==
  out \o <<RdbHeader(RdbLength), RdbPayload(RdbLength), Reply("crlf", "", 2, 0, <<>>, {})>>
sendEmptyRDBFile(out) == out \o <<RdbHeader(RdbLength), RdbPayload(RdbLength)>>
\* a handler that returned undefined: nothing is written
Undefined == Reply("undefined", "", 0, 0, <<>>, {})

startsWithMinus(r) == r.kind = "error"

\* result of a handler: the keyspace after it, its reply and how it ended
\* ("reply": returned, "throw": an exception left the handler)
Result(kv, reply, out) == [kv |-> kv, reply |-> reply, out |-> out]

\* ------------------------------------------------------------------------
\* string-commands.ts
\* ------------------------------------------------------------------------
\* handleSet: SET key value | SET key value PX milliseconds
HandleSet(kv, clock, cmd) ==
  IF cmd.px = NoPx
  THEN Result([kv EXCEPT ![cmd.key] = StringEntry(cmd.val, 0)],
              encodeSimpleString("OK"), "reply")
  ELSE IF cmd.px <= 0
       THEN Result(kv, encodeError("ERR invalid expire time in set"), "reply")
       ELSE Result([kv EXCEPT ![cmd.key] = StringEntry(cmd.val, clock + cmd.px)],
                   encodeSimpleString("OK"), "reply")

\* the expiry test with >= in place of >: the key is gone at the very
\* millisecond of its expiry
ExpiredAtOrAfter(entry, clock) == entry.expiry # 0 /\ clock >= entry.expiry

\* entry.expiry && Date.now() > entry.expiry
Expired(entry, clock) == entry.expiry # 0 /\ clock > entry.expiry

\* encodeBulkString(entry.value) for the value of any entry
BulkOfEntry(entry) ==
  IF entry.type = "undefined" THEN encodeBulkString(entry.str)
  ELSE encodeBulkGarbage

HandleGet(kv, clock, cmd) ==
  LET entry == kv[cmd.key] IN
  IF ~entry.present THEN Result(kv, NullBulk, "reply")
  ELSE IF Expired(entry, clock)
       THEN Result([kv EXCEPT ![cmd.key] = Absent], NullBulk, "reply")
       ELSE Result(kv, BulkOfEntry(entry), "reply")

\* parseInt(entry.value): an array or a Map converts to a text that is no number
ParseIntOfEntry(entry) ==
  IF entry.type = "undefined" THEN parseInt(entry.str) ELSE NaN

HandleIncr(kv, clock, cmd) ==
  LET entry == kv[cmd.key] IN
  IF ~entry.present \/ Expired(entry, clock)
  THEN Result([kv EXCEPT ![cmd.key] = StringEntry(IntStr(1), 0)],
              encodeInteger(1), "reply")
  ELSE LET currentValue == ParseIntOfEntry(entry) IN
       IF currentValue = NaN
       THEN Result(kv, encodeError("ERR value is not an integer or out of range"),
                   "reply")
       ELSE Result([kv EXCEPT ![cmd.key] =
                      [entry EXCEPT !.str = toString(PlusOne(currentValue))]],
                   encodeInteger(PlusOne(currentValue)), "reply")

\* ------------------------------------------------------------------------
\* commands.ts: TYPE and KEYS
\* ------------------------------------------------------------------------
HandleType(kv, clock, cmd) ==
  LET entry == kv[cmd.key] IN
  IF ~entry.present THEN Result(kv, encodeSimpleString("none"), "reply")
  ELSE IF entry.type = "stream"
       THEN Result(kv, encodeSimpleString("stream"), "reply")
       ELSE Result(kv, encodeSimpleString("string"), "reply")

\* KEYS *: matchesPattern is true of every key
HandleKeys(kv, clock, cmd) ==
  Result(kv, encodeKeyArray({k \in Keys : kv[k].present}), "reply")

\* ------------------------------------------------------------------------
\* stream-commands.ts
\* ------------------------------------------------------------------------
Last(seq) == seq[Len(seq)]

\* (ms, seq) order of two ids
IdLess(a, b) == a[1] < b[1] \/ (a[1] = b[1] /\ a[2] < b[2])

\* idValidation: the error for an explicit id against the last entry, or "" 
idValidation(entries, id) ==
  LET lastMs == Last(entries).id[1]
      lastSeq == Last(entries).id[2]
      newMs == id.ms
      newSeq == id.seq
  IN IF newMs = 0 /\ newSeq = 0
     THEN "ERR The ID specified in XADD must be greater than 0-0"
     ELSE IF newMs = lastMs /\ newSeq <= lastSeq
     THEN "ERR The ID specified in XADD is equal or smaller than the target stream top item"
     ELSE IF newMs < lastMs \/ newMs = NaN \/ newSeq = NaN
     THEN "ERR The ID specified in XADD is equal or smaller than the target stream top item"
     ELSE ""

\* highest sequence number stored for timeMs, -1 if there is none
MaxSeqFor(entries, timeMs) ==
  LET seqs == {entries[i].id[2] : i \in {j \in 1..Len(entries) : entries[j].id[1] = timeMs}}
  IN IF seqs = {} THEN -1 ELSE CHOOSE s \in seqs : \A t \in seqs : t <= s

generateSequenceNumber(entries, timeMs) ==
  IF Len(entries) = 0
  THEN (IF timeMs = 0 THEN 1 ELSE 0)
  ELSE LET maxSeq == MaxSeqFor(entries, timeMs) IN
       IF maxSeq = -1 THEN (IF timeMs = 0 THEN 1 ELSE 0) ELSE maxSeq + 1

\* the entry pushed by streamEntry.value.push(newEntry)
PushEntry(kv, key, entries, id) ==
  [kv EXCEPT ![key] = StreamValue(Append(entries, StreamEntry(id[1], id[2])))]

\* handleXAdd with a well-formed argument count.  On a key that holds a string
\* or a Map, value[...].id.split or value.push raises a TypeError.
HandleXAdd(kv, clock, cmd) ==
  LET key == cmd.key
      id == cmd.id
      kv1 == IF ~kv[key].present THEN [kv EXCEPT ![key] = StreamValue(<<>>)] ELSE kv
      streamEntry == kv1[key]
      isStream == streamEntry.type = "stream"
      entries == streamEntry.stream
  IN IF id.form = "auto"
     THEN IF ~isStream THEN Result(kv1, Undefined, "throw")
          ELSE LET finalId == <<clock, generateSequenceNumber(entries, clock)>> IN
               Result(PushEntry(kv1, key, entries, finalId), encodeBulkId(finalId), "reply")
     ELSE IF id.form = "autoseq"
     THEN IF id.ms = NaN
          THEN Result(kv1, encodeError("ERR Invalid stream ID specified as argument"), "reply")
          ELSE IF ~isStream THEN Result(kv1, Undefined, "throw")
          ELSE IF Len(entries) > 0 /\ id.ms < Last(entries).id[1]
          THEN Result(kv1, encodeError("ERR The ID specified in XADD is equal or smaller than the target stream top item"), "reply")
          ELSE IF Len(entries) > 0 /\ id.ms = 0
          THEN Result(kv1, encodeError("ERR The ID specified in XADD must be greater than 0-0"), "reply")
          ELSE LET finalId == <<id.ms, generateSequenceNumber(entries, id.ms)>> IN
               Result(PushEntry(kv1, key, entries, finalId), encodeBulkId(finalId), "reply")
     ELSE IF ~isStream THEN Result(kv1, Undefined, "throw")
          ELSE IF Len(entries) > 0 /\ idValidation(entries, id) # ""
          THEN Result(kv1, encodeError(idValidation(entries, id)), "reply")
          ELSE Result(PushEntry(kv1, key, entries, <<id.ms, id.seq>>),
                      encodeBulkId(<<id.ms, id.seq>>), "reply")

\* handleXRead: "$" is replaced by the last id of the stream, or 0-0
ResolveId(kv, key, id) ==
  IF id.form = "dollar"
  THEN (IF kv[key].present /\ kv[key].type = "stream" /\ Len(kv[key].stream) > 0
        THEN Last(kv[key].stream).id ELSE <<0, 0>>)
  ELSE <<id.ms, id.seq>>

\* encodeXReadResponse of the entries of one stream, as their ids
encodeXReadResponse(ids) ==
  Reply("xread", "", 0, 0, [i \in 1..Len(ids) |-> encodeBulkId(ids[i])], {})

SelectAfter(entries, startId) ==
  LET F[i \in 0..Len(entries)] ==
        IF i = 0 THEN <<>>
        ELSE IF IdLess(startId, entries[i].id)
             THEN Append(F[i - 1], entries[i].id) ELSE F[i - 1]
  IN F[Len(entries)]

\* processXRead for one stream: the entries whose id is greater than startId
processXRead(kv, key, startId) ==
  LET entry == kv[key] IN
  IF ~entry.present \/ entry.type # "stream" THEN EmptyArray
  ELSE LET ids == SelectAfter(entry.stream, startId) IN
       IF Len(ids) = 0 THEN EmptyArray ELSE encodeXReadResponse(ids)

\* ------------------------------------------------------------------------
\* sortedset-commands.ts
\* ------------------------------------------------------------------------
\* a[0].localeCompare(b[0]) < 0 on the member names of the model
MemberBefore(a, b) == a = "a" /\ b = "b"

\* the comparator of rebuildSortedOrder: score first, then member name
PairBefore(p, q) ==
  p.score < q.score \/ (p.score = q.score /\ MemberBefore(p.member, q.member))

\* Array.prototype.sort with that comparator
RECURSIVE SortPairs(_)
SortPairs(pairs) ==
  IF Len(pairs) = 0 THEN <<>>
  ELSE LET i == CHOOSE j \in 1..Len(pairs) :
                  \A l \in 1..Len(pairs) : l = j \/ ~PairBefore(pairs[l], pairs[j])
           rest == [l \in 1..(Len(pairs) - 1) |-> IF l < i THEN pairs[l] ELSE pairs[l + 1]]
       IN <<pairs[i]>> \o SortPairs(rest)

rebuildSortedOrder(zset) == SortPairs(zset)

MapHas(zset, member) == \E i \in 1..Len(zset) : zset[i].member = member

\* Map.set: an existing member keeps its place, a new one goes last
MapSet(zset, member, score) ==
  IF MapHas(zset, member)
  THEN [i \in 1..Len(zset) |->
          IF zset[i].member = member THEN [member |-> member, score |-> score]
          ELSE zset[i]]
  ELSE Append(zset, [member |-> member, score |-> score])

\* the loop of handleZAdd from pair i on: [zset, added, error]
RECURSIVE ZAddLoop(_, _, _, _)
ZAddLoop(zset, pairs, i, added) ==
  IF i > Len(pairs) THEN [zset |-> zset, added |-> added, error |-> FALSE]
  ELSE IF pairs[i].score = NaN
       THEN [zset |-> zset, added |-> added, error |-> TRUE]
       ELSE ZAddLoop(MapSet(zset, pairs[i].member, pairs[i].score), pairs, i + 1,
                     IF MapHas(zset, pairs[i].member) THEN added ELSE added + 1)

\* handleZAdd with a well-formed argument count
HandleZAdd(kv, clock, cmd) ==
  LET key == cmd.key
      entry == kv[key]
  IN IF entry.present /\ entry.type \notin {"undefined", "zset"}
     THEN Result(kv, encodeError("WRONGTYPE Operation against a key holding the wrong kind of value"), "reply")
     ELSE IF entry.present /\ entry.type = "undefined"
     THEN \* the value is a string: has() is no function, unless parseFloat fails first
          IF cmd.pairs[1].score = NaN
          THEN Result(kv, encodeError("ERR value is not a valid float"), "reply")
          ELSE Result(kv, encodeError("sortedSet.has is not a function"), "reply")
     ELSE LET kv1 == IF ~entry.present THEN [kv EXCEPT ![key] = ZSetValue(<<>>)] ELSE kv
              r == ZAddLoop(kv1[key].zset, cmd.pairs, 1, 0)
          IN IF r.error
             THEN Result([kv1 EXCEPT ![key].zset = r.zset],
                         encodeError("ERR value is not a valid float"), "reply")
             ELSE Result([kv1 EXCEPT ![key].zset = rebuildSortedOrder(r.zset)],
                         encodeInteger(r.added), "reply")

WrongType ==
  encodeError("WRONGTYPE Operation against a key holding the wrong kind of value")

\* Array.from(sortedSet.keys()): the members in the order of the Map
MapKeys(zset) == [i \in 1..Len(zset) |-> zset[i].member]

\* the 0-based index of member in the iteration of the Map
RankOf(zset, member) ==
  (CHOOSE i \in 1..Len(zset) : zset[i].member = member) - 1

Min(a, b) == IF a < b THEN a ELSE b

Max(a, b) == IF a >= b THEN a ELSE b

\* handleZRank.  On the string of a SET, sortedSet.has raises a TypeError.
HandleZRank(kv, clock, cmd) ==
  LET entry == kv[cmd.key]
      member == cmd.pairs[1].member
  IN IF ~entry.present THEN Result(kv, NullBulk, "reply")
     ELSE IF entry.type \notin {"undefined", "zset"} THEN Result(kv, WrongType, "reply")
     ELSE IF entry.type = "undefined" THEN Result(kv, Undefined, "throw")
     ELSE IF ~MapHas(entry.zset, member) THEN Result(kv, NullBulk, "reply")
     ELSE Result(kv, encodeInteger(RankOf(entry.zset, member)), "reply")

\* the slice of handleZRange on the members of the Map
ZRangeSlice(members, start, stop) ==
  LET cardinality == Len(members)
      startIdx == IF start < 0 THEN Max(0, cardinality + start) ELSE start
      stopRaw == IF stop < 0 THEN Max(-1, cardinality + stop) ELSE stop
      stopIdx == IF stopRaw >= cardinality THEN cardinality - 1 ELSE stopRaw
  IN IF startIdx >= cardinality \/ startIdx > stopIdx THEN <<>>
     ELSE SubSeq(members, startIdx + 1, stopIdx + 1)

\* handleZRange with integer start and stop and no WITHSCORES.  On the string
\* of a SET, sortedSet.keys raises a TypeError.
HandleZRange(kv, clock, cmd) ==
  LET entry == kv[cmd.key] IN
  IF ~entry.present THEN Result(kv, encodeArray(<<>>), "reply")
  ELSE IF entry.type \notin {"undefined", "zset"} THEN Result(kv, WrongType, "reply")
  ELSE IF entry.type = "undefined" THEN Result(kv, Undefined, "throw")
  ELSE Result(kv, encodeArray(ZRangeSlice(MapKeys(entry.zset), cmd.id.ms, cmd.id.seq)),
              "reply")

\* Map.delete
MapDelete(zset, member) ==
  LET keep(p) == p.member # member IN SelectSeq(zset, keep)

\* handleZRem.  On the string of a SET, sortedSet.has raises a TypeError.
HandleZRem(kv, clock, cmd) ==
  LET entry == kv[cmd.key]
      member == cmd.pairs[1].member
  IN IF ~entry.present THEN Result(kv, encodeInteger(0), "reply")
     ELSE IF entry.type \notin {"undefined", "zset"} THEN Result(kv, WrongType, "reply")
     ELSE IF entry.type = "undefined" THEN Result(kv, Undefined, "throw")
     ELSE IF ~MapHas(entry.zset, member) THEN Result(kv, encodeInteger(0), "reply")
     ELSE Result([kv EXCEPT ![cmd.key].zset = MapDelete(entry.zset, member)],
                 encodeInteger(1), "reply")

\* handleXRead for one stream.  With BLOCK and nothing to return the handler
\* stays in the loop of handleBlockingXRead ("block"): the first pass has
\* elapsed = 0, which no timeout > 0 has reached.
HandleXRead(kv, clock, cmd) ==
  LET results == processXRead(kv, cmd.key, ResolveId(kv, cmd.key, cmd.id)) IN
  IF cmd.block = NoBlock \/ results # EmptyArray
  THEN Result(kv, results, "reply")
  ELSE Result(kv, Undefined, "block")

\* ------------------------------------------------------------------------
\* commands.ts: the dispatcher
\* ------------------------------------------------------------------------
\* the switch of executeCommand, for the handlers that only touch the keyspace
Dispatch(kv, clock, cmd) ==
  CASE cmd.op = "SET" -> HandleSet(kv, clock, cmd)
    [] cmd.op = "GET" -> HandleGet(kv, clock, cmd)
    [] cmd.op = "INCR" -> HandleIncr(kv, clock, cmd)
    [] cmd.op = "TYPE" -> HandleType(kv, clock, cmd)
    [] cmd.op = "KEYS" -> HandleKeys(kv, clock, cmd)
    [] cmd.op = "XADD" -> HandleXAdd(kv, clock, cmd)
    [] cmd.op = "XREAD" -> HandleXRead(kv, clock, cmd)
    [] cmd.op = "ZADD" -> HandleZAdd(kv, clock, cmd)
    [] cmd.op = "ZRANK" -> HandleZRank(kv, clock, cmd)
    [] cmd.op = "ZRANGE" -> HandleZRange(kv, clock, cmd)
    [] cmd.op = "ZREM" -> HandleZRem(kv, clock, cmd)
    [] OTHER -> Result(kv, encodeError("ERR unknown command"), "reply")

isWriteCommand(cmd) == cmd.op \in {"SET", "INCR", "XADD", "ZADD", "ZREM"}

controlCommands == {"MULTI", "EXEC", "DISCARD"}

\* The server: kv (kvStore), txn (transactionState), queues (commandQueues),
\* flag (executingTransaction), reps (replicaConnections), wire (what was
\* written to each replica socket), offset (config.replicationOffset), subs
\* (subscriptions; no entry is the empty set), socks (per connection id, is
\* its socket open, and does connectionSockets hold a destroyed socket for
\* it), pushed (what PUBLISH wrote to each client socket).
shouldQueue(st, c, cmd) ==
  ~st.flag /\ st.txn[c] /\ cmd.op \notin controlCommands

queueCommand(st, c, cmd) ==
  [st EXCEPT !.queues[c] = Append(@, cmd)]

\* a propagateCommand that writes the command ahead of what the socket holds
propagateCommandAtFront(st, cmd) ==
  [st EXCEPT !.wire = [l \in Links |-> IF l \in st.reps THEN <<cmd>> \o @[l] ELSE @[l]]]

\* a propagateCommand whose loop ends after the first registered socket
propagateCommandFirstOnly(st, cmd) ==
  [st EXCEPT !.wire =
     [l \in Links |-> IF l \in st.reps /\ \A m \in st.reps : ~LinkBefore(m, l)
                      THEN Append(@[l], cmd) ELSE @[l]]]

\* replication-manager.ts propagateCommand: one write per registered socket
propagateCommand(st, cmd) ==
  [st EXCEPT !.wire = [l \in Links |-> IF l \in st.reps THEN Append(@[l], cmd) ELSE @[l]]]

\* a handler that returns at once: the server after it and the response
Handled(st, reply) == [st |-> st, reply |-> reply]

\* waitForReplicas: GETACK is written to every replica and the count is
\* returned in the same turn
waitForReplicas(st, numReplicas) ==
  IF Cardinality(st.reps) = 0 THEN Handled(st, encodeInteger(0))
  ELSE Handled(propagateCommand(st, CmdGetAck),
               encodeInteger(Min(Cardinality(st.reps), numReplicas)))

handleWait(st, cmd) ==
  IF parseInt(cmd.val) = NaN \/ cmd.block = NaN
  THEN Handled(st, encodeError("ERR invalid arguments for 'wait' command"))
  ELSE IF parseInt(cmd.val) < 0
  THEN Handled(st, encodeError("ERR negative number of replicas"))
  ELSE IF parseInt(cmd.val) = 0 THEN Handled(st, encodeInteger(0))
  ELSE IF Cardinality(st.reps) = 0 THEN Handled(st, encodeInteger(0))
  ELSE waitForReplicas(st, parseInt(cmd.val))

\* getMasterReplicationInfo().master_repl_offset
master_repl_offset(st) == st.offset

handleInfo(st) == Handled(st, encodeReplicationInfo(master_repl_offset(st)))

\* PubSubCommands
isInSubscriptionMode(st, c) == st.subs[c] # {}

allowedCommandsAndGet ==
  {"PING", "SUBSCRIBE", "UNSUBSCRIBE", "PSUBSCRIBE", "PUNSUBSCRIBE", "QUIT", "GET"}

allowedCommands ==
  {"PING", "SUBSCRIBE", "UNSUBSCRIBE", "PSUBSCRIBE", "PUNSUBSCRIBE", "QUIT"}

\* the error of handleSubscriptionsMode; it quotes the command name
subscriptionModeError(cmd) ==
  Reply("error", "ERR Can't execute in subscription mode", 0, 0, <<>>, {cmd.op})

handlePing(st, c) ==
  Handled(st, IF isInSubscriptionMode(st, c) THEN encodeArray(<<"pong", "">>)
              ELSE encodeSimpleString("PONG"))

handleSubscribe(st, c, cmd) ==
  Handled([st EXCEPT !.subs[c] = @ \cup {cmd.key}, !.socks[c].stale = FALSE],
          encodeSubscription("subscribe", cmd.key,
                             Cardinality(st.subs[c] \cup {cmd.key})))

handleUnsubscribe(st, c, cmd) ==
  IF cmd.key = NoArgs
  THEN Handled(st, encodeError("ERR wrong number of arguments for 'unsubscribe' command"))
  ELSE IF st.subs[c] = {}
  THEN Handled(st, encodeError("ERR not subscribed to any channels"))
  ELSE Handled([st EXCEPT !.subs[c] = @ \ {cmd.key},
                          !.socks[c].stale = IF st.subs[c] \ {cmd.key} = {}
                                             THEN FALSE ELSE @],
               encodeSubscription("unsubscribe", cmd.key,
                                  Cardinality(st.subs[c] \ {cmd.key})))

\* handlePublish: every connection id whose set holds the channel is counted;
\* the message is written when its recorded socket is not destroyed
handlePublish(st, cmd) ==
  Handled([st EXCEPT !.pushed =
             [c \in Conns |->
                IF cmd.key \in st.subs[c] /\ st.socks[c].open /\ ~st.socks[c].stale
                THEN Append(@[c], encodePublishMessage(cmd.key, cmd.val))
                ELSE @[c]]],
          encodeInteger(Cardinality({c \in Conns : cmd.key \in st.subs[c]})))

\* the switch of executeCommand, for the handlers outside the keyspace
Control(st, c, cmd) ==
  CASE cmd.op = "WAIT" -> handleWait(st, cmd)
    [] cmd.op = "INFO" -> handleInfo(st)
    [] cmd.op = "PING" -> handlePing(st, c)
    [] cmd.op = "SUBSCRIBE" -> handleSubscribe(st, c, cmd)
    [] cmd.op = "UNSUBSCRIBE" -> handleUnsubscribe(st, c, cmd)
    [] cmd.op = "PUBLISH" -> handlePublish(st, cmd)

controlOps == {"WAIT", "INFO", "PING", "SUBSCRIBE", "UNSUBSCRIBE", "PUBLISH"}

handleMulti(st, c) ==
  [st EXCEPT !.txn[c] = TRUE, !.queues[c] = <<>>]

handleDiscard(st, c) ==
  [st EXCEPT !.txn[c] = FALSE, !.queues[c] = <<>>]

\* encodeResultArray: "*0\r\n" of no result, else the replies one after another
encodeResultArray(results) ==
  IF Len(results) = 0 THEN EmptyArray ELSE Reply("execarray", "", 0, 0, results, {})

LogItem(cmd, reply, out) == [cmd |-> cmd, reply |-> reply, out |-> out]

\* What a handler run leaves: the server, the reply, how it ended ("reply",
\* "throw", or "block" inside handleBlockingXRead), the commands dispatched
\* to a keyspace handler in order (log), and for a run that blocks inside
\* EXEC the queued commands not yet run and the results so far.
Outcome(st, reply, out, log, inExec, rest, results, waitCmd) ==
  [st |-> st, reply |-> reply, out |-> out, log |-> log, inExec |-> inExec,
   rest |-> rest, results |-> results, waitCmd |-> waitCmd]

\* the tail of executeCommand after a handler returned `response`
AfterHandler(st, cmd, response) ==
  IF response # Undefined /\ ~st.flag /\ isWriteCommand(cmd)
     /\ ~startsWithMinus(response) /\ st.role # "slave"
  THEN propagateCommand(st, cmd)
  ELSE st

\* the value executeCommand returns
Returned(st, cmd, response) ==
  IF st.role = "slave" /\ isWriteCommand(cmd) THEN Undefined ELSE response

\* executeCommand once the handler of the switch has ended as r
AfterDispatch(st, cmd, r) ==
  IF r.out = "reply"
  THEN Outcome(AfterHandler([st EXCEPT !.kv = r.kv], cmd, r.reply),
               Returned(st, cmd, r.reply),
               "reply", <<LogItem(cmd, r.reply, "reply")>>, FALSE, <<>>, <<>>, cmd)
  ELSE Outcome([st EXCEPT !.kv = r.kv], Undefined, r.out,
               <<LogItem(cmd, Undefined, r.out)>>, FALSE, <<>>, <<>>, cmd)

\* executeCommand once a handler outside the keyspace has returned h
AfterControl(h, cmd) ==
  Outcome(AfterHandler(h.st, cmd, h.reply), Returned(h.st, cmd, h.reply), "reply",
          <<LogItem(cmd, h.reply, "reply")>>, FALSE, <<>>, <<>>, cmd)

\* executeCommand for every command but EXEC
executeSimple(st, clock, c, cmd) ==
  IF shouldQueue(st, c, cmd)
  THEN Outcome(queueCommand(st, c, cmd), encodeSimpleString("QUEUED"), "reply",
               <<>>, FALSE, <<>>, <<>>, cmd)
  ELSE IF isInSubscriptionMode(st, c) /\ cmd.op \notin allowedCommands
  THEN Outcome(st, subscriptionModeError(cmd), "reply", <<>>, FALSE, <<>>, <<>>, cmd)
  ELSE CASE cmd.op \in controlOps -> AfterControl(Control(st, c, cmd), cmd)
         [] cmd.op = "MULTI" ->
              Outcome(handleMulti(st, c), encodeSimpleString("OK"), "reply",
                      <<>>, FALSE, <<>>, <<>>, cmd)
         [] cmd.op = "DISCARD" ->
              IF ~st.txn[c]
              THEN Outcome(st, encodeError("ERR DISCARD without MULTI"), "reply",
                           <<>>, FALSE, <<>>, <<>>, cmd)
              ELSE Outcome(handleDiscard(st, c), encodeSimpleString("OK"), "reply",
                           <<>>, FALSE, <<>>, <<>>, cmd)
         [] OTHER -> AfterDispatch(st, cmd, Dispatch(st.kv, clock, cmd))

\* One turn of the loop of handleExec on the outcome of the turns before it:
\* executeCommand on the next queued command (the queue never holds EXEC,
\* MULTI or DISCARD: queueCommand is not reached for them) and results.push.
\* A queued command that throws ends the loop with the flag still set.
Pushed(prev, r, cmd, rest) ==
  CASE r.out = "reply" ->
         Outcome(r.st, Undefined, "reply", prev.log \o r.log, TRUE, <<>>,
                 Append(prev.results, r.reply), CmdExec)
    [] r.out = "throw" ->
         Outcome(r.st, Undefined, "throw", prev.log \o r.log, TRUE, <<>>,
                 prev.results, CmdExec)
    [] OTHER ->
         Outcome(r.st, Undefined, "block", prev.log \o r.log, TRUE, rest,
                 prev.results, cmd)

ExecTurn(prev, clock, c, cmd, rest) ==
  IF prev.out # "reply" THEN prev
  ELSE Pushed(prev, executeSimple(prev.st, clock, c, cmd), cmd, rest)

\* the end of handleExec: the flag is reset and the results are encoded
ExecEnd(last) ==
  IF last.out = "reply"
  THEN [last EXCEPT !.st.flag = FALSE, !.reply = encodeResultArray(last.results)]
  ELSE last

\* handleExec from the loop over queuedCommands on, with the results so far
RunQueue(st, clock, c, q, results, log) ==
  LET F[i \in 0..Len(q)] ==
        IF i = 0
        THEN Outcome(st, Undefined, "reply", log, TRUE, <<>>, results, CmdExec)
        ELSE ExecTurn(F[i - 1], clock, c, q[i], SubSeq(q, i + 1, Len(q)))
  IN ExecEnd(F[Len(q)])

handleExec(st, clock, c) ==
  IF ~st.txn[c]
  THEN Outcome(st, encodeError("ERR EXEC without MULTI"), "reply", <<>>, FALSE,
               <<>>, <<>>, CmdExec)
  ELSE RunQueue([st EXCEPT !.txn[c] = FALSE, !.queues[c] = <<>>, !.flag = TRUE],
                clock, c, st.queues[c], <<>>, <<>>)

executeCommand(st, clock, c, cmd) ==
  IF cmd.op = "EXEC" /\ ~isInSubscriptionMode(st, c) THEN handleExec(st, clock, c)
  ELSE executeSimple(st, clock, c, cmd)

\* ------------------------------------------------------------------------
\* The wire form of a propagated command, and the replica that reads it
\* ------------------------------------------------------------------------
\* Number.prototype.toString().length of a count or a length
Digits(n) == IF n < 10 THEN 1 ELSE IF n < 100 THEN 2 ELSE 3

\* one part of a command: its String.length and its length in UTF-8 bytes
Part(chars, bytes) == [chars |-> chars, bytes |-> bytes]
Ascii(n) == Part(n, n)

ValuePart(v) ==
  CASE v.kind = "int" -> Ascii(Digits(v.n))
    [] v.kind = "prefix" -> Ascii(Digits(v.n) + 3)
    [] v.kind = "text" -> Ascii(1)
    [] v.kind = "wide" -> Part(1, 2)

\* [command, ...args] of the commands a primary writes to a replica; a key
\* is one ASCII character
Parts(cmd) ==
  CASE cmd.op = "SET" /\ cmd.px = NoPx -> <<Ascii(3), Ascii(1), ValuePart(cmd.val)>>
    [] cmd.op = "SET" /\ cmd.px # NoPx ->
         <<Ascii(3), Ascii(1), ValuePart(cmd.val), Ascii(2), Ascii(Digits(cmd.px))>>
    [] cmd.op = "INCR" -> <<Ascii(4), Ascii(1)>>
    [] cmd.op = "REPLCONF" -> <<Ascii(8), Ascii(6), Ascii(1)>>

RECURSIVE SumOver(_, _)
SumOver(parts, i) ==
  IF i > Len(parts) THEN 0 ELSE parts[i] + SumOver(parts, i + 1)

\* encodeRESPCommand, by the number of bytes socket.write puts on the wire:
\* "*<count>\r\n", then per part "$<part.length>\r\n<part as UTF-8>\r\n"
encodeRESPCommand(cmd) ==
  1 + Digits(Len(Parts(cmd))) + 2
    + SumOver([i \in 1..Len(Parts(cmd)) |->
                 1 + Digits(Parts(cmd)[i].chars) + 2 + Parts(cmd)[i].bytes + 2], 1)

\* calculateCommandBytes on the parsed command: part.length for the data
calculateCommandBytes(cmd) ==
  1 + Digits(Len(Parts(cmd))) + 2
    + SumOver([i \in 1..Len(Parts(cmd)) |->
                 1 + Digits(Parts(cmd)[i].chars) + 2 + Parts(cmd)[i].chars + 2], 1)

\* parseRESPCommand on the frame of cmd at the head of the buffer: a bulk
\* string is cut after part.length bytes, so a part with more bytes than
\* characters leaves the parser inside the data; only as the last part of
\* the frame does the array still complete
parses(cmd) ==
  \A i \in 1..(Len(Parts(cmd)) - 1) : Parts(cmd)[i].bytes = Parts(cmd)[i].chars

\* The replica process behind a link: next (the first frame of the link not
\* yet read from the socket), offset (replicationOffset), aligned (the buffer
\* starts at a frame boundary), acks (the offsets of the REPLCONF ACK frames
\* written to the primary), applied (the commands handed to its own server),
\* and, as history, received (the bytes of the frames read from the socket).
ReplicaStart(next) ==
  [next |-> next, offset |-> 0, aligned |-> TRUE, acks |-> <<>>, applied |-> <<>>,
   received |-> 0]

isGetAck(cmd) == cmd.op = "REPLCONF" /\ cmd.key = "GETACK"

\* handleBuffer once the frame of cmd has been appended to the buffer.  When
\* the buffer does not start at a frame boundary parseRESPCommand returns
\* null and the loop breaks, for this and every later frame.
handleBuffer(rep, cmd) ==
  IF ~rep.aligned \/ ~parses(cmd)
  THEN [rep EXCEPT !.next = @ + 1, !.aligned = FALSE,
                   !.received = @ + encodeRESPCommand(cmd)]
  ELSE [rep EXCEPT !.next = @ + 1,
                   !.aligned = calculateCommandBytes(cmd) = encodeRESPCommand(cmd),
                   !.acks = IF isGetAck(cmd) THEN Append(@, rep.offset) ELSE @,
                   !.offset = @ + calculateCommandBytes(cmd),
                   !.applied = IF isGetAck(cmd) THEN @ ELSE Append(@, cmd),
                   !.received = @ + encodeRESPCommand(cmd)]

\* ------------------------------------------------------------------------
\* RESP at the level of bytes: strings, buffers, the encoder and RESPParser
\* ------------------------------------------------------------------------
\* A string is a sequence of UTF-16 units and a buffer a sequence of bytes.
\* The units are the letters "A" and "a", the digits, "*", "$", "CR" and "LF"
\* (one byte each in UTF-8), e-acute in lower and upper case (two bytes
\* each) and U+FFFD, which decoding puts for bytes that are no UTF-8 (three
\* bytes).  The types "+", "-" and ":" and the null bulk string "$-1" are
\* left out of the alphabet.
HighBytes == {"c3", "a9", "89", "ef", "bf", "bd"}

\* the UTF-8 bytes of one unit
BytesOf(ch) ==
  CASE ch = "eacute" -> <<"c3", "a9">>
    [] ch = "Eacute" -> <<"c3", "89">>
    [] ch = "fffd" -> <<"ef", "bf", "bd">>
    [] OTHER -> <<ch>>

\* Buffer.from(string), and what a utf8 write stream writes of a string
RECURSIVE BufferFrom(_)
BufferFrom(str) ==
  IF str = <<>> THEN <<>> ELSE BytesOf(Head(str)) \o BufferFrom(Tail(str))

\* Buffer.toString(): a byte that begins no character becomes U+FFFD
RECURSIVE bufferToString(_)
bufferToString(buf) ==
  IF buf = <<>> THEN <<>>
  ELSE IF Len(buf) >= 2 /\ buf[1] = "c3" /\ buf[2] = "a9"
  THEN <<"eacute">> \o bufferToString(SubSeq(buf, 3, Len(buf)))
  ELSE IF Len(buf) >= 2 /\ buf[1] = "c3" /\ buf[2] = "89"
  THEN <<"Eacute">> \o bufferToString(SubSeq(buf, 3, Len(buf)))
  ELSE IF Len(buf) >= 3 /\ buf[1] = "ef" /\ buf[2] = "bf" /\ buf[3] = "bd"
  THEN <<"fffd">> \o bufferToString(SubSeq(buf, 4, Len(buf)))
  ELSE IF buf[1] \in HighBytes
  THEN <<"fffd">> \o bufferToString(Tail(buf))
  ELSE <<buf[1]>> \o bufferToString(Tail(buf))

\* String.toUpperCase()
UpperOf(ch) ==
  CASE ch = "a" -> "A" [] ch = "eacute" -> "Eacute" [] OTHER -> ch

toUpperCase(str) == [i \in 1..Len(str) |-> UpperOf(str[i])]

DigitChars == <<"0", "1", "2", "3", "4", "5", "6", "7", "8", "9">>

DigitValue(ch) == CHOOSE d \in 0..9 : DigitChars[d + 1] = ch

\* Number.toString() of a length below 100
numberToString(n) ==
  IF n < 10 THEN <<DigitChars[n + 1]>>
  ELSE <<DigitChars[(n \div 10) + 1], DigitChars[(n % 10) + 1]>>

\* parseInt of a string: the number its leading digits spell, NaN without one
RECURSIVE leadingInt(_, _, _)
leadingInt(str, acc, seen) ==
  IF str = <<>> \/ Head(str) \notin {DigitChars[i] : i \in 1..10}
  THEN IF seen THEN acc ELSE NaN
  ELSE leadingInt(Tail(str), acc * 10 + DigitValue(Head(str)), TRUE)

parseIntString(str) == leadingInt(str, 0, FALSE)

CRLF == <<"CR", "LF">>

\* encodeRESPCommand on the parts [command, ...args]: the string of the frame,
\* each part headed by its length in UTF-16 units
RECURSIVE encodeParts(_)
encodeParts(parts) ==
  IF parts = <<>> THEN <<>>
  ELSE <<"$">> \o numberToString(Len(Head(parts))) \o CRLF \o Head(parts) \o CRLF
       \o encodeParts(Tail(parts))

encodeRESPCommandString(parts) ==
  <<"*">> \o numberToString(Len(parts)) \o CRLF \o encodeParts(parts)

\* calculateRESPCommandBytes on the parts [command, ...args]
RECURSIVE partBytes(_)
partBytes(parts) ==
  IF parts = <<>> THEN 0
  ELSE 1 + Len(numberToString(Len(Head(parts)))) + 2 + Len(Head(parts)) + 2
       + partBytes(Tail(parts))

calculateRESPCommandBytes(parts) ==
  1 + Len(numberToString(Len(parts))) + 2 + partBytes(parts)

\* Buffer.subarray(start, end): offsets from 0, end exclusive and clamped
subarray(buf, start, end) == SubSeq(buf, start + 1, Min(end, Len(buf)))

StrValue(chars) == [kind |-> "str", chars |-> chars, items |-> <<>>]
ArrValue(items) == [kind |-> "arr", chars |-> <<>>, items |-> items]

\* how a parse ends: a value and the offset after it, an exception, or null
Parsed(val, off) == [st |-> "ok", val |-> val, off |-> off]
Thrown == [st |-> "throw", val |-> StrValue(<<>>), off |-> 0]
NullParsed(off) == [st |-> "null", val |-> StrValue(<<>>), off |-> off]

\* findCRLF: the first offset from off on where CR LF stands; NotFound for
\* the "CRLF not found" exception
NotFound == -1

findCRLF(buf, off) ==
  IF \A i \in off..(Len(buf) - 2) : ~(buf[i + 1] = "CR" /\ buf[i + 2] = "LF")
  THEN NotFound
  ELSE CHOOSE i \in off..(Len(buf) - 2) :
         /\ buf[i + 1] = "CR" /\ buf[i + 2] = "LF"
         /\ \A j \in off..(i - 1) : ~(buf[j + 1] = "CR" /\ buf[j + 2] = "LF")

\* parseBulkString after the length line: `length` bytes are taken as they
\* are, fewer when the buffer ends before, and the offset moves on by
\* length + 2 whatever stands there.  A length that is NaN takes nothing and
\* leaves the offset NaN.
bulkOf(buf, off, length) ==
  IF length = NaN THEN Parsed(StrValue(<<>>), NaN)
  ELSE Parsed(StrValue(bufferToString(subarray(buf, off, off + length))),
              off + length + 2)

parseBulkString(buf, off, lengthEndIndex) ==
  IF lengthEndIndex = NotFound THEN Thrown
  ELSE bulkOf(buf, lengthEndIndex + 2,
              parseIntString(bufferToString(subarray(buf, off, lengthEndIndex))))

RECURSIVE parse(_, _)
RECURSIVE parseElements(_, _, _, _)

\* array.push(element) of parseArray, the null element throws
pushElement(buf, n, acc, element) ==
  IF element.st # "ok" THEN Thrown
  ELSE parseElements(buf, element.off, n - 1, Append(acc, element.val))

\* the loop of parseArray with n elements to go
parseElements(buf, off, n, acc) ==
  IF n = 0 THEN Parsed(ArrValue(acc), off)
  ELSE pushElement(buf, n, acc, parse(buf, off))

arrayOf(buf, off, length) ==
  IF length = NaN THEN Parsed(ArrValue(<<>>), off)
  ELSE parseElements(buf, off, length, <<>>)

parseArray(buf, off, lengthEndIndex) ==
  IF lengthEndIndex = NotFound THEN Thrown
  ELSE arrayOf(buf, lengthEndIndex + 2,
               parseIntString(bufferToString(subarray(buf, off, lengthEndIndex))))

\* RESPParser.parse at offset off
parse(buf, off) ==
  IF off = NaN THEN Thrown
  ELSE IF off >= Len(buf) THEN NullParsed(off)
  ELSE CASE buf[off + 1] = "$" -> parseBulkString(buf, off + 1, findCRLF(buf, off + 1))
         [] buf[off + 1] = "*" -> parseArray(buf, off + 1, findCRLF(buf, off + 1))
         [] OTHER -> Thrown

\* String(value): a string as it is, an array as its elements joined by ","
RECURSIVE String(_)
RECURSIVE joinItems(_)
joinItems(items) ==
  IF items = <<>> THEN <<>>
  ELSE IF Len(items) = 1 THEN String(items[1])
  ELSE String(items[1]) \o <<",">> \o joinItems(Tail(items))

String(value) == IF value.kind = "str" THEN value.chars ELSE joinItems(value.items)

NoCommand == [ok |-> FALSE, parts |-> <<>>]

\* the command and args taken from a parsed value, null for anything but an
\* array with elements
commandOf(r) ==
  IF r.st # "ok" \/ r.val.kind # "arr" THEN NoCommand
  ELSE IF Len(r.val.items) = 0 THEN NoCommand
  ELSE [ok |-> TRUE,
        parts |-> <<toUpperCase(String(r.val.items[1]))>>
                  \o [i \in 1..(Len(r.val.items) - 1) |-> String(r.val.items[i + 1])]]

parseRESPCommand(data) == commandOf(parse(data, 0))

\* replayCommands: the loop over the content of the file from offset on; done
\* holds the commands handed to executeCommand so far
RECURSIVE replayFrom(_, _, _)
replayStep(content, offset, done, c) ==
  IF ~c.ok THEN done
  ELSE replayFrom(content,
                  offset + Len(BufferFrom(encodeRESPCommandString(c.parts))),
                  Append(done, c.parts))

replayFrom(content, offset, done) ==
  IF offset >= Len(content) THEN done
  ELSE replayStep(content, offset, done,
                  commandOf(parse(subarray(content, offset, Len(content)), 0)))

replayCommands(content) == replayFrom(content, 0, <<>>)

\* main.ts, the loop of the data handler over one data event for a handler
\* that answers: what reached executeCommand and what was written
RECURSIVE handleData(_, _, _)
dataStep(data, offset, acc, c) ==
  IF ~c.ok THEN [acc EXCEPT !.written = Append(@, "error")]
  ELSE handleData(data, offset + calculateRESPCommandBytes(c.parts),
                  [executed |-> Append(acc.executed, c.parts),
                   written |-> Append(acc.written, "reply")])

handleData(data, offset, acc) ==
  IF offset >= Len(data) THEN acc
  ELSE dataStep(data, offset, acc,
                parseRESPCommand(subarray(data, offset, Len(data))))

\* replica side, the head of handleBuffer: a buffer that starts with "$" is
\* taken for the snapshot and skipped, and handleBuffer returns when the
\* length line or the payload is not complete.  parseInt of a length line
\* without digits is NaN, the comparison with NaN is false and subarray(NaN)
\* keeps the buffer.
rdbCut(buf, start, length) ==
  IF length = NaN THEN [wait |-> FALSE, buffer |-> buf]
  ELSE IF Len(buf) < start + length THEN [wait |-> TRUE, buffer |-> buf]
  ELSE [wait |-> FALSE, buffer |-> subarray(buf, start + length, Len(buf))]

rdbSkipAt(buf, rdbLengthEndIndex) ==
  IF rdbLengthEndIndex = NotFound THEN [wait |-> TRUE, buffer |-> buf]
  ELSE rdbCut(buf, rdbLengthEndIndex + 2,
              parseIntString(bufferToString(subarray(buf, 1, rdbLengthEndIndex))))

skipRDB(buf) ==
  IF Len(buf) > 0 /\ buf[1] = "$" THEN rdbSkipAt(buf, findCRLF(buf, 0))
  ELSE [wait |-> FALSE, buffer |-> buf]

\* the loop of handleBuffer over the buffer of the link: a command that
\* parses is cut off by the length calculateCommandBytes gives for it and
\* counted into replicationOffset; the loop ends on an empty buffer or a
\* buffer that parses to null, which is kept
RECURSIVE processBuffer(_)
processStep(s, c) ==
  IF ~c.ok THEN s
  ELSE processBuffer([buffer |-> subarray(s.buffer, calculateRESPCommandBytes(c.parts),
                                            Len(s.buffer)),
                      offset |-> s.offset + calculateRESPCommandBytes(c.parts),
                      commands |-> Append(s.commands, c.parts)])

processBuffer(s) ==
  IF Len(s.buffer) = 0 THEN s ELSE processStep(s, parseRESPCommand(s.buffer))

\* the data handler of setupPropagationListener: the data is appended to
\* the buffer and handleBuffer runs
handleBufferAfter(s, r) ==
  IF r.wait THEN s ELSE processBuffer([s EXCEPT !.buffer = r.buffer])

onPropagatedData(s, data) ==
  handleBufferAfter([s EXCEPT !.buffer = @ \o data], skipRDB(s.buffer \o data))

\* ------------------------------------------------------------------------
\* The handshake of a replica, at the level of the pieces of the stream
\* ------------------------------------------------------------------------
\* What the primary writes to the replica is a sequence of pieces: the
\* replies "pong" and "ok", an error reply "err", the FULLRESYNC line "line"
\* or its two parts "line1" (up to and with the word FULLRESYNC) and "line2",
\* the header of the snapshot "hdr", its payload in two halves "rdb1" and
\* "rdb2", and the frame of a propagated command "cmd".  A data event hands
\* over some pieces at once.  The pieces of NoCRLF do not end in CRLF, all
\* others do.
NoCRLF == {"rdb1", "rdb2", "line1"}
HandshakeCommands ==
  <<"PING", "REPLCONF listening-port", "REPLCONF capa psync2", "PSYNC ? -1">>

\* the reply sendPingToMaster and sendReplconfCommands compare with
expectedReply(i) == IF i = 1 THEN <<"pong">> ELSE <<"ok">>

\* the payload of the snapshot in pieces
RdbPieces == 2

SetOf(seq) == {seq[i] : i \in 1..Len(seq)}

\* Buffer.indexOf("\r\n"), as the number of the first piece that ends in CRLF
firstCRLF(buf) ==
  IF \A i \in 1..Len(buf) : buf[i] \in NoCRLF THEN NotFound
  ELSE CHOOSE i \in 1..Len(buf) :
         /\ buf[i] \notin NoCRLF
         /\ \A j \in 1..(i - 1) : buf[j] \in NoCRLF

\* a handler that takes a buffer with a header for complete at once
hasSnapshotHeader(buf) == TRUE

\* buffer.length >= rdbDataEnd for a buffer that starts with the header
hasWholeSnapshot(buf) == Len(buf) >= 1 + RdbPieces

\* the loop of handleBuffer: the commands at the head of the buffer are taken
\* off; anything else parses to null and stays
RECURSIVE processPieces(_)
processPieces(h) ==
  IF h.buffer # <<>> /\ Head(h.buffer) = "cmd"
  THEN processPieces([h EXCEPT !.buffer = Tail(@), !.consumed = Append(@, "cmd")])
  ELSE h

\* handleBuffer on the pieces: a buffer that starts with the header waits
\* for the whole payload and skips it
handlePieces(h) ==
  IF h.buffer # <<>> /\ Head(h.buffer) = "hdr"
  THEN IF hasWholeSnapshot(h.buffer)
       THEN processPieces([h EXCEPT
              !.buffer = SubSeq(@, 2 + RdbPieces, Len(@)),
              !.consumed = @ \o SubSeq(h.buffer, 1, Min(1 + RdbPieces, Len(h.buffer)))])
       ELSE h
  ELSE processPieces(h)

\* psyncHandler once the FULLRESYNC line has been cut: handshakeComplete,
\* the handler is taken off, what is left is handed to handleBuffer, resolve
completeHandshake(h) ==
  IF h.buffer # <<>>
  THEN handlePieces([h EXCEPT !.stage = "streaming"])
  ELSE [h EXCEPT !.stage = "streaming"]

\* psyncHandler after the line: a header at the head of the buffer needs its
\* whole payload, else the handler returns with the line already cut
afterFullResync(h) ==
  IF h.buffer # <<>> /\ Head(h.buffer) = "hdr"
  THEN IF hasWholeSnapshot(h.buffer)
       THEN completeHandshake([h EXCEPT
              !.buffer = SubSeq(@, 2 + RdbPieces, Len(@)),
              !.consumed = @ \o SubSeq(h.buffer, 1, Min(1 + RdbPieces, Len(h.buffer)))])
       ELSE h
  ELSE completeHandshake(h)

\* psyncHandler: the data is appended to the buffer; when the buffer holds
\* FULLRESYNC and a CRLF the buffer is cut after the first CRLF
psyncHandler(h, data) ==
  IF SetOf(h.buffer \o data) \cap {"line", "line1"} = {}
       \/ firstCRLF(h.buffer \o data) = NotFound
  THEN [h EXCEPT !.buffer = @ \o data]
  ELSE afterFullResync([h EXCEPT
         !.buffer = SubSeq(h.buffer \o data, firstCRLF(h.buffer \o data) + 1,
                           Len(h.buffer \o data)),
         !.consumed = @ \o SubSeq(h.buffer \o data, 1, firstCRLF(h.buffer \o data))])

\* the onData of sendCommandToMaster and the test of its caller: the whole
\* data event is the response; the expected one lets the next command out
\* (after the last one, PSYNC), any other throws and initiateHandshake cleans up
onReply(h, data) ==
  IF data = expectedReply(Len(h.sent))
  THEN [h EXCEPT !.replies = Append(@, data),
                 !.sent = Append(@, HandshakeCommands[Len(h.sent) + 1]),
                 !.stage = IF Len(h.sent) = 3 THEN "psync" ELSE "replying"]
  ELSE [h EXCEPT !.replies = Append(@, data), !.stage = "failed"]

\* the data event of the connection to the primary, by the listener that is
\* attached in the stage
onMasterData(h, data) ==
  CASE h.stage = "replying" -> onReply(h, data)
    [] h.stage = "psync" -> psyncHandler(h, data)
    [] h.stage = "streaming" -> handlePieces([h EXCEPT !.buffer = @ \o data])
    [] OTHER -> h

\* what the primary writes in answer to the i-th command of the handshake:
\* its own reply, or an error when it does not take the command
primaryAnswers(i) ==
  IF i = 4 THEN {<<"line", "hdr", "rdb1", "rdb2">>,
                 <<"line1", "line2", "hdr", "rdb1", "rdb2">>, <<"err">>}
  ELSE {expectedReply(i), <<"err">>}

\* ------------------------------------------------------------------------
\* State
\* ------------------------------------------------------------------------
VARIABLES
  kvStore,              \* RedisCommands.kvStore
  transactionState,     \* RedisCommands.transactionState, per connection
  commandQueues,        \* RedisCommands.commandQueues, per connection
  executingTransaction, \* RedisCommands.executingTransaction, one per server
  replicaConnections,   \* ReplicationManager.replicaConnections
  wire,                 \* the commands written to each replica socket, in order
  role,                 \* config.role
  now,                  \* Date.now()
  pending,              \* per connection, the handler waiting in handleBlockingXRead
  nCmds,                \* number of commands received so far
  ev,                   \* history: the last event and what it did
  lastSet,              \* history: per key, the last SET with no later write
  replicationOffset,    \* config.replicationOffset of the primary
  subscriptions,        \* PubSubCommands.subscriptions, per connection id
  sockets,              \* per connection id: its socket, and connectionSockets
  pushed,               \* the messages PUBLISH wrote to each client socket
  replica,              \* per link, the replica process at its other end
  ackSeen,              \* per link, the REPLCONF ACK frames the primary has read
  txnRan,               \* history: per connection, a command sent inside its open
                        \* transaction has been run by a handler
  frames,               \* history: the commands whose frames were written
  aofContent,           \* the bytes of the append-only file
  inbox,                \* the data events a client socket has yet to deliver
  executed,             \* the commands handed to executeCommand, in order
  written,              \* what the data handler wrote to the client socket
  counts,               \* the byte counts taken of one command
  phase,                \* how far replay or measuring has come
  linkOut,              \* per link, what handlePsync wrote to its socket
  delivered,            \* per link, the forwarded commands that have reached
                        \* the replica's own server
  replicaKv,            \* per link, the kvStore of the replica at its other end
  handshake,            \* the replica side of the handshake with its primary
  masterUp,             \* the primary accepts connections
  toReplica,            \* the data events on their way from primary to replica
  replicaStream         \* ReplicationManager.buffer and replicationOffset at
                        \* the level of bytes

vars == <<kvStore, transactionState, commandQueues, executingTransaction,
          replicaConnections, wire, role, now, pending, nCmds, ev, lastSet,
          replicationOffset, subscriptions, sockets, pushed, replica, ackSeen,
          txnRan, frames, aofContent, inbox, executed, written, counts, phase,
          linkOut, delivered, replicaKv, handshake, masterUp, toReplica,
          replicaStream>>

\* the variables of the publish/subscribe side and of the replicas
pubsubVars == <<subscriptions, sockets, pushed>>
replVars == <<replicationOffset, replica, ackSeen>>
\* the variables of the links and of the replica process
linkVars == <<linkOut, delivered, replicaKv, handshake, masterUp, toReplica,
              replicaStream>>
\* the variables of the command handlers
serverVars == <<kvStore, transactionState, commandQueues, executingTransaction,
                replicaConnections, wire, role, now, pending, nCmds, ev, lastSet,
                pubsubVars, replVars, txnRan, linkVars>>
\* the variables of the byte level: the file, the socket and the frame codec
frameVars == <<frames, aofContent, inbox, executed, written, counts, phase>>

Server ==
  [kv |-> kvStore, txn |-> transactionState, queues |-> commandQueues,
   flag |-> executingTransaction, reps |-> replicaConnections, wire |-> wire,
   role |-> role, offset |-> replicationOffset, subs |-> subscriptions,
   socks |-> sockets, pushed |-> pushed]

NoPending ==
  [active |-> FALSE, inExec |-> FALSE, rest |-> <<>>, results |-> <<>>,
   key |-> "", startId |-> <<0, 0>>, start |-> 0, timeout |-> 0]

Event(kind, conn, cmd, reply, out, log) ==
  [kind |-> kind, conn |-> conn, cmd |-> cmd, reply |-> reply, out |-> out, log |-> log]

NoSet == [valid |-> FALSE, val |-> TextStr, at |-> 0, px |-> NoPx]

\* history of C9: a SET that replied OK is remembered, any other command that
\* may write the key forgets it
RECURSIVE TrackSets(_, _, _)
TrackSets(ls, log, clock) ==
  IF Len(log) = 0 THEN ls
  ELSE LET cmd == Head(log).cmd
           next ==
             IF cmd.op = "SET" /\ Head(log).reply = encodeSimpleString("OK")
             THEN [ls EXCEPT ![cmd.key] =
                     [valid |-> TRUE, val |-> cmd.val, at |-> clock, px |-> cmd.px]]
             ELSE IF isWriteCommand(cmd)
             THEN [ls EXCEPT ![cmd.key] = NoSet]
             ELSE ls
       IN TrackSets(next, Tail(log), clock)

\* history of C26: a command that a connection sent after its MULTI, while
\* its transaction was open, has been run by a handler
TrackTxn(tr, c, cmd, open, log) ==
  IF cmd.op = "MULTI" THEN [tr EXCEPT ![c] = FALSE]
  ELSE IF open /\ cmd.op \notin controlCommands /\ log # <<>>
  THEN [tr EXCEPT ![c] = TRUE]
  ELSE tr

\* a connection on which handlePsync has written nothing; at is the number
\* of commands the link id carried before this connection
NoLinkOut == [at |-> 0, items |-> <<>>]

\* the replica before initiateHandshake: the stage it is in, the commands it
\* wrote to the primary, this.buffer as a sequence of pieces, the pieces taken
\* off the buffer in order, and the pieces handed to parseRESPCommand
HandshakeStart ==
  [stage |-> "idle", sent |-> <<>>, replies |-> <<>>, answered |-> 0,
   linked |-> FALSE, propagated |-> 0, buffer |-> <<>>, consumed |-> <<>>]

\* ReplicationManager of a replica at the level of bytes: this.buffer,
\* this.replicationOffset and the commands taken off the buffer
StreamStart == [buffer |-> <<>>, offset |-> 0, commands |-> <<>>]

NoCounts == [calculated |-> 0, encoded |-> 0, consumed |-> 0]

StartClock == 1

\* the file, the socket and the codec at the start, fs the commands whose
\* byte counts are to be taken
IoInit(fs) ==
  /\ frames = fs
  /\ aofContent = <<>>
  /\ inbox = <<>>
  /\ executed = <<>>
  /\ written = <<>>
  /\ counts = NoCounts
  /\ phase = "idle"

\* the server after construction, started as primary ("master") or with
\* --replicaof ("slave")
ServerInit(startRole) ==
  /\ kvStore = [k \in Keys |-> Absent]
  /\ transactionState = [c \in Conns |-> FALSE]
  /\ commandQueues = [c \in Conns |-> <<>>]
  /\ executingTransaction = FALSE
  /\ replicaConnections = {}
  /\ wire = [l \in Links |-> <<>>]
  /\ role = startRole
  /\ now = StartClock
  /\ pending = [c \in Conns |-> NoPending]
  /\ nCmds = 0
  /\ ev = Event("init", "", CmdKeys, Undefined, "reply", <<>>)
  /\ lastSet = [k \in Keys |-> NoSet]
  /\ replicationOffset = 0
  /\ subscriptions = [c \in Conns |-> {}]
  /\ sockets = [c \in Conns |-> [open |-> TRUE, stale |-> FALSE]]
  /\ pushed = [c \in Conns |-> <<>>]
  /\ replica = [l \in Links |-> ReplicaStart(1)]
  /\ ackSeen = [l \in Links |-> 0]
  /\ txnRan = [c \in Conns |-> FALSE]
  /\ linkOut = [l \in Links |-> NoLinkOut]
  /\ delivered = [l \in Links |-> {}]
  /\ replicaKv = [l \in Links |-> [k \in Keys |-> Absent]]
  /\ handshake = HandshakeStart
  /\ masterUp = FALSE
  /\ toReplica = <<>>
  /\ replicaStream = StreamStart

InitAs(startRole) == ServerInit(startRole) /\ IoInit(<<>>)

Init == InitAs("master")

\* the server variables after a handler run
Install(st) ==
  /\ kvStore' = st.kv
  /\ transactionState' = st.txn
  /\ commandQueues' = st.queues
  /\ executingTransaction' = st.flag
  /\ wire' = st.wire
  /\ replicationOffset' = st.offset
  /\ subscriptions' = st.subs
  /\ sockets' = st.socks
  /\ pushed' = st.pushed
  /\ UNCHANGED <<replicaConnections, role, replica, ackSeen>>

\* the handler parked in handleBlockingXRead, from the outcome of a run
Parked(r, clock) ==
  IF r.out = "block"
  THEN [active |-> TRUE, inExec |-> r.inExec, rest |-> r.rest, results |-> r.results,
        key |-> r.waitCmd.key,
        startId |-> ResolveId(r.st.kv, r.waitCmd.key, r.waitCmd.id),
        start |-> clock, timeout |-> r.waitCmd.block]
  ELSE NoPending

\* main.ts: a data event holding one command of client connection c.  A
\* client sends its next command once the handler of the previous one ended.
Recv(c, cmd) ==
  /\ nCmds < MaxCmds
  /\ sockets[c].open
  /\ ~pending[c].active
  /\ shouldQueue(Server, c, cmd) => Len(commandQueues[c]) < MaxQueue
  /\ \E r \in {executeCommand(Server, now, c, cmd)} :
       /\ Install(r.st)
       /\ pending' = [pending EXCEPT ![c] = Parked(r, now)]
       /\ ev' = Event("recv", c, cmd, r.reply, r.out, r.log)
       /\ lastSet' = TrackSets(lastSet, r.log, now)
       /\ txnRan' = TrackTxn(txnRan, c, cmd, transactionState[c], r.log)
       /\ UNCHANGED <<frameVars, linkVars>>
  /\ nCmds' = nCmds + 1
  /\ UNCHANGED now

\* the 10 ms timer of handleBlockingXRead fires and the loop finds entries or
\* the timeout; inside EXEC the loop of handleExec then goes on
Resume(c) ==
  \E p \in {pending[c]} :
  \E found \in {IF pending[c].active
                THEN processXRead(kvStore, pending[c].key, pending[c].startId)
                ELSE EmptyArray} :
  \E response \in {IF found # EmptyArray THEN found ELSE NullArray} :
     /\ p.active
     /\ found # EmptyArray \/ (p.timeout > 0 /\ now - p.start >= p.timeout)
     /\ IF p.inExec
        THEN \E r \in {RunQueue(Server, now, c, p.rest, Append(p.results, response), <<>>)} :
               /\ Install(r.st)
               /\ pending' = [pending EXCEPT ![c] = Parked(r, now)]
               /\ ev' = Event("resume", c, CmdExec, r.reply, r.out, r.log)
               /\ lastSet' = TrackSets(lastSet, r.log, now)
               /\ UNCHANGED <<txnRan, frameVars, linkVars>>
        ELSE /\ pending' = [pending EXCEPT ![c] = NoPending]
             /\ ev' = Event("resume", c, CmdKeys, response, "reply", <<>>)
             /\ UNCHANGED <<kvStore, transactionState, commandQueues,
                            executingTransaction, replicaConnections, wire, role, lastSet, txnRan, frameVars, linkVars,
                            pubsubVars, replVars>>
     /\ UNCHANGED <<now, nCmds>>

\* the wall clock advances
Tick ==
  /\ now < MaxClock
  /\ now' = now + 1
  /\ ev' = Event("tick", "", CmdKeys, Undefined, "reply", <<>>)
  /\ UNCHANGED <<kvStore, transactionState, commandQueues, executingTransaction,
                 replicaConnections, wire, role, pending, nCmds, lastSet, txnRan, frameVars, linkVars,
                 pubsubVars, replVars>>

\* handlePsync on a connection that is not yet a replica link: what it writes
\* to the socket, whether addReplicaConnection is called, and the response
\* executeCommand hands back (the FULLRESYNC line is written by the handler)
handlePsync(args, offset) ==
  IF Len(args) # 2
  THEN [writes |-> <<>>, register |-> FALSE,
        reply |-> encodeError("ERR wrong number of arguments for 'psync' command")]
  ELSE IF args[1] = "?" /\ args[2] = "-1"
  THEN [writes |-> sendEmptyRDBFile(<<encodeFullResync(offset)>>), register |-> TRUE,
        reply |-> Undefined]
  ELSE [writes |-> <<>>, register |-> FALSE,
        reply |-> encodeError("ERR PSYNC not fully implemented")]

\* a data event with PSYNC and the arguments args on connection l.  The
\* replica at the other end starts to read propagated commands after the
\* snapshot, at offset 0.
PsyncWith(l, args) ==
  /\ l \notin replicaConnections
  /\ \E h \in {handlePsync(args, master_repl_offset(Server))} :
       /\ replicaConnections' = IF h.register THEN replicaConnections \cup {l}
                                ELSE replicaConnections
       /\ replica' = IF h.register
                     THEN [replica EXCEPT ![l] = ReplicaStart(Len(wire[l]) + 1)]
                     ELSE replica
       /\ linkOut' = [linkOut EXCEPT ![l] = [at |-> Len(wire[l]), items |-> h.writes]]
       /\ delivered' = IF h.register THEN [delivered EXCEPT ![l] = {}] ELSE delivered
       /\ replicaKv' = IF h.register
                       THEN [replicaKv EXCEPT ![l] = [k \in Keys |-> Absent]]
                       ELSE replicaKv
       /\ ev' = Event("psync", l, CmdPsync(args),
                      IF h.register THEN h.writes[1] ELSE h.reply, "reply", <<>>)
  /\ UNCHANGED <<kvStore, transactionState, commandQueues, executingTransaction,
                 wire, role, now, pending, nCmds, lastSet, txnRan, frameVars, pubsubVars,
                 replicationOffset, ackSeen, handshake, masterUp, toReplica,
                 replicaStream>>

\* PSYNC ? -1, what a replica sends
Psync(l) == PsyncWith(l, <<"?", "-1">>)

\* the close event of a replica socket: removeReplicaConnection
LinkClose(l) ==
  /\ l \in replicaConnections
  /\ replicaConnections' = replicaConnections \ {l}
  /\ ev' = Event("close", l, CmdKeys, Undefined, "reply", <<>>)
  /\ UNCHANGED <<kvStore, transactionState, commandQueues, executingTransaction,
                 wire, role, now, pending, nCmds, lastSet, txnRan, frameVars, linkVars, pubsubVars, replVars>>

\* replica side, the data event of the link: the next frame the primary wrote
\* is read from the socket and handleBuffer runs
ReplicaRead(l) ==
  /\ replica[l].next <= Len(wire[l])
  /\ replica' = [replica EXCEPT ![l] = handleBuffer(@, wire[l][replica[l].next])]
  /\ ev' = Event("replica", l, wire[l][replica[l].next], Undefined, "reply", <<>>)
  /\ UNCHANGED <<kvStore, transactionState, commandQueues, executingTransaction,
                 replicaConnections, wire, role, now, pending, nCmds, lastSet, txnRan, frameVars, linkVars,
                 pubsubVars, replicationOffset, ackSeen>>

\* replica side: one of the connections handleBuffer opened to the replica's
\* own port connects, writes its command and the replica's server executes it
\* on its keyspace.  Every forwarded command has a connection of its own, and
\* nothing orders the connections among themselves.
ReplicaApply(l, i) ==
  /\ i \in 1..Len(replica[l].applied)
  /\ i \notin delivered[l]
  /\ delivered' = [delivered EXCEPT ![l] = @ \cup {i}]
  /\ replicaKv' = [replicaKv EXCEPT ![l] = Dispatch(@, now, replica[l].applied[i]).kv]
  /\ ev' = Event("apply", l, replica[l].applied[i], Undefined, "reply", <<>>)
  /\ UNCHANGED <<kvStore, transactionState, commandQueues, executingTransaction,
                 replicaConnections, wire, role, now, pending, nCmds, lastSet, txnRan,
                 frameVars, pubsubVars, replVars, linkOut, handshake, masterUp,
                 toReplica, replicaStream>>

\* primary side, the data event of a replica link that holds a REPLCONF ACK
\* frame: handleReplConf calls replicationManager.handleAck, which keeps
\* nothing that WAIT reads
AckArrives(l) ==
  /\ l \in replicaConnections
  /\ ackSeen[l] < Len(replica[l].acks)
  /\ ackSeen' = [ackSeen EXCEPT ![l] = @ + 1]
  /\ ev' = Event("ack", l, CmdGetAck, Undefined, "reply", <<>>)
  /\ UNCHANGED <<kvStore, transactionState, commandQueues, executingTransaction,
                 replicaConnections, wire, role, now, pending, nCmds, lastSet, txnRan, frameVars, linkVars,
                 pubsubVars, replicationOffset, replica>>

\* a client socket closes: main.ts registers no close handler, so
\* cleanupConnection does not run and only the socket is destroyed
ConnClose(c) ==
  /\ sockets[c].open
  /\ sockets' = [sockets EXCEPT ![c] = [open |-> FALSE, stale |-> subscriptions[c] # {}]]
  /\ ev' = Event("connclose", c, CmdKeys, Undefined, "reply", <<>>)
  /\ UNCHANGED <<kvStore, transactionState, commandQueues, executingTransaction,
                 replicaConnections, wire, role, now, pending, nCmds, lastSet, txnRan, frameVars, linkVars,
                 subscriptions, pushed, replVars>>

\* a later connection from the same remote address and port: getConnectionId
\* gives it the id of the closed one
ConnOpen(c) ==
  /\ ~sockets[c].open
  /\ sockets' = [sockets EXCEPT ![c].open = TRUE]
  /\ ev' = Event("connopen", c, CmdKeys, Undefined, "reply", <<>>)
  /\ UNCHANGED <<kvStore, transactionState, commandQueues, executingTransaction,
                 replicaConnections, wire, role, now, pending, nCmds, lastSet, txnRan, frameVars, linkVars,
                 subscriptions, pushed, replVars>>

\* main.ts: a data event of connection c while the handler of an earlier
\* command of c is waiting in handleBlockingXRead; the data handler starts at
\* once and writes its reply when it ends
RecvPipelined(c, cmd) ==
  /\ nCmds < MaxCmds
  /\ sockets[c].open
  /\ pending[c].active
  /\ shouldQueue(Server, c, cmd) => Len(commandQueues[c]) < MaxQueue
  /\ \E r \in {executeCommand(Server, now, c, cmd)} :
       /\ r.out # "block"
       /\ Install(r.st)
       /\ ev' = Event("recv", c, cmd, r.reply, r.out, r.log)
       /\ lastSet' = TrackSets(lastSet, r.log, now)
       /\ txnRan' = TrackTxn(txnRan, c, cmd, transactionState[c], r.log)
       /\ UNCHANGED <<frameVars, linkVars>>
  /\ nCmds' = nCmds + 1
  /\ UNCHANGED <<now, pending>>

\* appendCommand: the frame of the command is written to the end of the file
appendCommand(parts) ==
  /\ phase = "idle"
  /\ Len(frames) < MaxFrames
  /\ aofContent' = aofContent \o BufferFrom(encodeRESPCommandString(parts))
  /\ frames' = Append(frames, parts)
  /\ UNCHANGED <<serverVars, inbox, executed, written, counts, phase>>

\* the process dies while the write stream writes a frame: the first n bytes
\* of it are in the file
TornAppend(parts, n) ==
  /\ phase = "idle"
  /\ n \in 1..(Len(BufferFrom(encodeRESPCommandString(parts))) - 1)
  /\ aofContent' = aofContent
                    \o SubSeq(BufferFrom(encodeRESPCommandString(parts)), 1, n)
  /\ phase' = "torn"
  /\ UNCHANGED <<serverVars, frames, inbox, executed, written, counts>>

\* the next start: replayCommands reads the file and calls executeCommand
Replay ==
  /\ phase \in {"idle", "torn"}
  /\ executed' = replayCommands(aofContent)
  /\ phase' = "replayed"
  /\ UNCHANGED <<serverVars, frames, aofContent, inbox, written, counts>>

\* calculateRESPCommandBytes is asked for the size of the command
Calculate ==
  /\ counts.calculated = 0
  /\ counts' = [counts EXCEPT !.calculated = calculateRESPCommandBytes(frames[1])]
  /\ UNCHANGED <<serverVars, frames, aofContent, inbox, executed, written, phase>>

\* encodeRESPCommand makes the frame and the socket sends it as UTF-8
Encode ==
  /\ phase = "idle"
  /\ inbox' = BufferFrom(encodeRESPCommandString(frames[1]))
  /\ counts' = [counts EXCEPT
                  !.encoded = Len(BufferFrom(encodeRESPCommandString(frames[1])))]
  /\ phase' = "encoded"
  /\ UNCHANGED <<serverVars, frames, aofContent, executed, written>>

\* RESPParser parses the frame: the offset it ends at, 0 when it throws
Parse ==
  /\ phase = "encoded"
  /\ counts' = [counts EXCEPT !.consumed = parse(inbox, 0).off]
  /\ phase' = "parsed"
  /\ UNCHANGED <<serverVars, frames, aofContent, inbox, executed, written>>

\* a client writes the frame of a command to its socket
Send(parts) ==
  /\ Len(frames) < MaxFrames
  /\ inbox' = inbox \o BufferFrom(encodeRESPCommandString(parts))
  /\ frames' = Append(frames, parts)
  /\ UNCHANGED <<serverVars, aofContent, executed, written, counts, phase>>

\* main.ts: a data event with the next n bytes the client sent; the handler
\* works on this buffer alone
Data(n) ==
  /\ n \in 1..Len(inbox)
  /\ \E r \in {handleData(SubSeq(inbox, 1, n), 0,
                           [executed |-> executed, written |-> written])} :
       /\ executed' = r.executed
       /\ written' = r.written
  /\ inbox' = SubSeq(inbox, n + 1, Len(inbox))
  /\ UNCHANGED <<serverVars, frames, aofContent, counts, phase>>

\* the variables the handshake leaves alone
handshakeRest ==
  <<kvStore, transactionState, commandQueues, executingTransaction,
    replicaConnections, wire, role, now, pending, nCmds, ev, lastSet, txnRan,
    pubsubVars, replVars, frameVars, linkOut, delivered, replicaKv, replicaStream>>

\* the primary starts to accept connections
MasterStart ==
  /\ ~masterUp
  /\ masterUp' = TRUE
  /\ UNCHANGED <<handshakeRest, handshake, toReplica>>

\* initializeServer calls initiateHandshake, once: connectToMaster resolves
\* and PING is written, or the connection fails or times out, the promise
\* is rejected and initiateHandshake cleans up and returns
Connect ==
  /\ handshake.stage = "idle"
  /\ handshake' = IF masterUp
                  THEN [handshake EXCEPT !.stage = "replying",
                                         !.sent = <<HandshakeCommands[1]>>]
                  ELSE [handshake EXCEPT !.stage = "failed"]
  /\ UNCHANGED <<handshakeRest, masterUp, toReplica>>

\* the primary handles the next command of the handshake and writes its
\* answer
PrimaryReply ==
  /\ handshake.stage \in {"replying", "psync"}
  /\ handshake.answered < Len(handshake.sent)
  /\ \E answer \in primaryAnswers(handshake.answered + 1) :
       /\ toReplica' = toReplica \o answer
       /\ handshake' = [handshake EXCEPT !.answered = @ + 1,
                                         !.linked = "hdr" \in SetOf(answer)]
  /\ UNCHANGED <<handshakeRest, masterUp>>

\* the primary propagates a write to the link it registered on PSYNC
PrimaryPropagate ==
  /\ handshake.stage \in {"psync", "streaming"}
  /\ handshake.linked
  /\ handshake.propagated < MaxPropagated
  /\ toReplica' = toReplica \o <<"cmd">>
  /\ handshake' = [handshake EXCEPT !.propagated = @ + 1]
  /\ UNCHANGED <<handshakeRest, masterUp>>

\* a data event of the connection to the primary with the next n pieces
MasterData(n) ==
  /\ handshake.stage \in {"replying", "psync", "streaming"}
  /\ n \in 1..Len(toReplica)
  /\ handshake' = onMasterData(handshake, SubSeq(toReplica, 1, n))
  /\ toReplica' = IF handshake'.stage = "failed" THEN <<>>
                  ELSE SubSeq(toReplica, n + 1, Len(toReplica))
  /\ UNCHANGED <<handshakeRest, masterUp>>

\* the timer of sendCommandToMaster (3000 ms) or of sendPsyncCommand (5000
\* ms) fires before the promise is settled: reject, and initiateHandshake
\* destroys the connection
HandshakeTimeout ==
  /\ handshake.stage \in {"replying", "psync"}
  /\ handshake' = [handshake EXCEPT !.stage = "failed"]
  /\ toReplica' = <<>>
  /\ UNCHANGED <<handshakeRest, masterUp>>

\* the idle timeout connectToMaster set on the socket (5000 ms) and never
\* took off: on an established link without traffic the callback destroys
\* the socket, and the close handler forgets the connection
IdleTimeout ==
  /\ handshake.stage = "streaming"
  /\ toReplica = <<>>
  /\ handshake' = [handshake EXCEPT !.stage = "closed"]
  /\ UNCHANGED <<handshakeRest, masterUp, toReplica>>

\* the primary writes the frame of a propagated command to the link
Propagate(parts) ==
  /\ Len(frames) < MaxFrames
  /\ inbox' = inbox \o BufferFrom(encodeRESPCommandString(parts))
  /\ frames' = Append(frames, parts)
  /\ UNCHANGED <<serverVars, aofContent, executed, written, counts, phase>>

\* replica side: a data event of the link with the next n bytes
ReplicaData(n) ==
  /\ n \in 1..Len(inbox)
  /\ replicaStream' = onPropagatedData(replicaStream, SubSeq(inbox, 1, n))
  /\ inbox' = SubSeq(inbox, n + 1, Len(inbox))
  /\ UNCHANGED <<kvStore, transactionState, commandQueues, executingTransaction,
                 replicaConnections, wire, role, now, pending, nCmds, ev, lastSet,
                 txnRan, pubsubVars, replVars, linkOut, delivered, replicaKv, handshake,
                 masterUp, toReplica, frames, aofContent, executed, written, counts,
                 phase>>

\* ------------------------------------------------------------------------
\* Specifications
\* ------------------------------------------------------------------------
\* transactions and propagation: two clients, one replica link
TxnCmds ==
  {CmdSet("k", TextStr), CmdIncr("k"), CmdGet("k"),
   CmdXAdd("k", ExplicitId(1, 1)), CmdXRead("k", DollarId, 0),
   CmdMulti, CmdExec, CmdDiscard}

RecvTxn == \E c \in Conns : \E cmd \in TxnCmds : nCmds < MaxTxnCmds /\ Recv(c, cmd)
ResumeAny == \E c \in Conns : Resume(c)
PsyncAny == \E l \in FirstLink : Psync(l)
LinkCloseAny == \E l \in FirstLink : LinkClose(l)

Next == RecvTxn \/ ResumeAny \/ PsyncAny \/ LinkCloseAny \/ Tick

Spec == Init /\ [][Next]_vars

\* the keyspace: one client, every form of the data commands, the clock
KeyCmds ==
  {CmdSet("k", TextStr), CmdSet("k", IntStr(1)),
   CmdSetPx("k", TextStr, 1), CmdSetPx("k", TextStr, 0),
   CmdGet("k"), CmdIncr("k"), CmdType("k"), CmdKeys,
   CmdXAdd("k", ExplicitId(0, 0)), CmdXAdd("k", ExplicitId(2, 0)),
   CmdXAdd("k", AutoSeqId(1)), CmdXAdd("k", AutoSeqId(NaN)), CmdXAdd("k", AutoId),
   CmdXRead("k", ExplicitId(0, 0), NoBlock),
   CmdZAdd("k", <<[member |-> "b", score |-> 1]>>),
   CmdZAdd("k", <<[member |-> "a", score |-> 1], [member |-> "b", score |-> NaN]>>),
   CmdZRem("k", "b"), CmdZRank("k", "a"), CmdZRange("k", 0, -1)}

RecvKey == \E cmd \in KeyCmds : nCmds < MaxKeyCmds /\ Recv("A", cmd)

NextKeyspace == RecvKey \/ Tick \/ PsyncAny \/ LinkCloseAny

SpecKeyspace == Init /\ [][NextKeyspace]_vars

\* replication: one client of the primary, one replica behind the link
ReplCmds ==
  {CmdSet("k", TextStr), CmdSet("k", WideStr), CmdIncr("k"), CmdGet("k"),
   CmdWait(1, 0), CmdWait(0, 0), CmdInfo, CmdMulti, CmdExec}

RecvRepl == \E cmd \in ReplCmds : nCmds < MaxReplCmds /\ Recv("A", cmd)
ReplicaReadAny == \E l \in FirstLink : ReplicaRead(l)
AckArrivesAny == \E l \in FirstLink : AckArrives(l)

NextRepl == RecvRepl \/ PsyncAny \/ LinkCloseAny \/ ReplicaReadAny \/ AckArrivesAny

SpecRepl == Init /\ [][NextRepl]_vars

\* connections: two clients that subscribe, publish, pipeline and reconnect
ConnCmds ==
  {CmdSubscribe("c"), CmdSubscribe("d"), CmdUnsubscribe("c"), CmdUnsubscribe("d"),
   CmdPublish("c", TextStr), CmdPing, CmdGet("k"), CmdSet("k", TextStr),
   CmdMulti, CmdExec, CmdXRead("k", DollarId, 1), CmdUnsubscribeAll}

RecvConn == \E c \in Conns : \E cmd \in ConnCmds : nCmds < MaxConnCmds /\ Recv(c, cmd)
RecvPipelinedAny ==
  \E c \in Conns : \E cmd \in ConnCmds : nCmds < MaxConnCmds /\ RecvPipelined(c, cmd)
ConnCloseAny == \E c \in Conns : ConnClose(c)
ConnOpenAny == \E c \in Conns : ConnOpen(c)

NextConn ==
  RecvConn \/ RecvPipelinedAny \/ ResumeAny \/ ConnCloseAny \/ ConnOpenAny
    \/ PsyncAny \/ Tick

SpecConn == Init /\ [][NextConn]_vars

\* streams: two clients, the forms of XADD, XREAD $ with and without BLOCK,
\* and a SET that replaces the stream
StreamCmds ==
  {CmdXAdd("k", AutoSeqId(0)), CmdXAdd("k", AutoSeqId(1)),
   CmdXAdd("k", ExplicitId(2, 0)), CmdXAdd("k", AutoId),
   CmdXRead("k", DollarId, NoBlock), CmdXRead("k", DollarId, 0),
   CmdXRead("k", DollarId, 1), CmdSet("k", TextStr)}

RecvStream ==
  \E c \in Conns : \E cmd \in StreamCmds : nCmds < MaxStreamCmds /\ Recv(c, cmd)

NextStream == RecvStream \/ ResumeAny \/ Tick

SpecStream == Init /\ [][NextStream]_vars

\* numbers: one client, SET of texts that are, start with or are not the
\* decimal form of an integer, and INCR
NumCmds ==
  {CmdSet("k", IntStr(1)), CmdSet("k", IntStr(Int64Max - 1)), CmdSet("k", IntStr(Int64Max)),
   CmdSet("k", PrefixStr(12)), CmdSet("k", TextStr), CmdSetPx("k", IntStr(1), 1),
   CmdIncr("k"), CmdGet("k")}

RecvNum == \E cmd \in NumCmds : nCmds < MaxNumCmds /\ Recv("A", cmd)

NextNum == RecvNum \/ Tick

SpecNum == Init /\ [][NextNum]_vars

\* the 10 ms timer of a waiting handleBlockingXRead always fires again, so a
\* handler whose loop can end does not wait for ever
\* MULTI, EXEC and DISCARD of two clients around a read that blocks
DiscardCmds ==
  {CmdMulti, CmdExec, CmdDiscard, CmdSet("k", TextStr), CmdXRead("k", DollarId, 1)}

RecvDiscard == \E c \in Conns : \E cmd \in DiscardCmds : Recv(c, cmd)

NextDiscard == RecvDiscard \/ ResumeAny \/ Tick

SpecDiscard == Init /\ [][NextDiscard]_vars

\* one client of a server that runs as primary or as replica
ReplyCmds ==
  {CmdSet("k", TextStr), CmdGet("k"), CmdIncr("k"), CmdXAdd("k", ExplicitId(1, 1)),
   CmdXRead("k", DollarId, 1), CmdPing}

InitAnyRole == \E startRole \in {"master", "slave"} : InitAs(startRole)

RecvReply == \E cmd \in ReplyCmds : nCmds < MaxReplyCmds /\ Recv("A", cmd)

NextReply == RecvReply \/ Resume("A") \/ Tick

SpecReply == InitAnyRole /\ [][NextReply]_vars

\* the append-only file: commands with one-byte and two-byte characters
AofCmds ==
  {<<<<"A">>>>, <<<<"A">>, <<"a">>>>, <<<<"A">>, <<"a", "a">>>>,
   <<<<"A">>, <<"eacute">>>>, <<<<"A">>, <<"eacute">>, <<"a">>>>}

AppendAny == \E parts \in AofCmds : appendCommand(parts)

TornAny == \E parts \in AofCmds : \E n \in 1..MaxFrameBytes : TornAppend(parts, n)

NextAof == AppendAny \/ TornAny \/ Replay

SpecAof == Init /\ [][NextAof]_vars

\* the codec: one command, its byte counts taken three ways
CodecNames == {<<"A">>, <<"A", "A">>}
CodecArgs == {<<"a">>, <<"eacute">>, <<"a", "eacute">>}
CodecCmds ==
  {<<name>> : name \in CodecNames}
  \cup {<<name, a1>> : name \in CodecNames, a1 \in CodecArgs}
  \cup {<<name, a1, a2>> : name \in CodecNames, a1 \in CodecArgs, a2 \in CodecArgs}

InitCodec == \E parts \in CodecCmds : ServerInit("master") /\ IoInit(<<parts>>)

NextCodec == Calculate \/ Encode \/ Parse

SpecCodec == InitCodec /\ [][NextCodec]_vars

\* a client socket: commands of one-byte characters, split by the network
SocketCmds == {<<<<"A">>>>, <<<<"A">>, <<"a">>>>, <<<<"A", "A">>, <<"a", "a">>>>}

SendAny == \E parts \in SocketCmds : Send(parts)

DataAny == \E n \in 1..MaxFrameBytes : Data(n)

NextSocket == SendAny \/ DataAny

SpecSocket == Init /\ [][NextSocket]_vars

\* the link at the level of bytes: propagated commands of one-byte
\* characters, split by the network
LinkFrames == SocketCmds \cup {<<<<"A">>, <<"1", "$">>>>}

PropagateAny == \E parts \in LinkFrames : Propagate(parts)

ReplicaDataAny == \E n \in 1..MaxFrameBytes : ReplicaData(n)

NextReplicaStream == PropagateAny \/ ReplicaDataAny

SpecReplicaStream == Init /\ [][NextReplicaStream]_vars

\* a replica behind the link that forwards what it reads to its own server
ApplyCmds == {CmdSet("k", IntStr(1)), CmdSet("k", TextStr), CmdIncr("k"), CmdWait(1, 0)}

RecvApply == \E cmd \in ApplyCmds : nCmds < MaxApplyCmds /\ Recv("A", cmd)

ReplicaApplyAny ==
  \E l \in FirstLink : \E i \in 1..MaxApplyCmds : ReplicaApply(l, i)

NextReplica == RecvApply \/ PsyncAny \/ ReplicaReadAny \/ ReplicaApplyAny

SpecReplica == Init /\ [][NextReplica]_vars

\* two replica links of a primary: PSYNC with good and bad arguments, the
\* close of a link, and writes of one client
PsyncArgs == {<<"?", "-1">>, <<"?", "0">>, <<"?">>}

LinkCmds == {CmdSet("k", TextStr), CmdIncr("k"), CmdGet("k"), CmdWait(1, 0)}

RecvLink == \E cmd \in LinkCmds : nCmds < MaxLinkCmds /\ Recv("A", cmd)

PsyncWithAny == \E l \in Links : \E args \in PsyncArgs : PsyncWith(l, args)

LinkCloseEither == \E l \in Links : LinkClose(l)

NextLinks == RecvLink \/ PsyncWithAny \/ LinkCloseEither

SpecLinks == Init /\ [][NextLinks]_vars

\* a replica and its primary from the start of the replica to the stream of
\* propagated commands
MasterDataAny == \E n \in 1..MaxPieces : MasterData(n)

NextHandshake ==
  \/ MasterStart
  \/ Connect
  \/ PrimaryReply
  \/ PrimaryPropagate
  \/ MasterDataAny
  \/ HandshakeTimeout
  \/ IdleTimeout

SpecHandshake == InitAs("slave") /\ [][NextHandshake]_vars

\* the event loop runs every callback that is due and the network delivers
\* what was written; no timer has to fire
SpecHandshakeFair ==
  /\ SpecHandshake
  /\ WF_vars(MasterStart)
  /\ WF_vars(Connect)
  /\ WF_vars(PrimaryReply)
  /\ WF_vars(MasterDataAny)

SpecStreamFair == SpecStream /\ \A c \in Conns : WF_vars(Resume(c))

\* ------------------------------------------------------------------------
\* Properties
\* ------------------------------------------------------------------------
\* a dispatched command of the write-set that replied, and not with an error
IsSuccessfulWrite(item) ==
  isWriteCommand(item.cmd) /\ item.out = "reply" /\ ~startsWithMinus(item.reply)

\* the successful writes of a log, in order
SuccessfulWrites(log) ==
  LET w == SelectSeq(log, IsSuccessfulWrite) IN [i \in 1..Len(w) |-> w[i].cmd]

\* the commands of q run one after another on kv, each on the keyspace the
\* one before it left: the keyspace at the end and the replies in order
SerialRun(kv, clock, q) ==
  LET F[i \in 0..Len(q)] ==
        IF i = 0 THEN [kv |-> kv, replies |-> <<>>]
        ELSE [kv |-> Dispatch(F[i - 1].kv, clock, q[i]).kv,
              replies |-> Append(F[i - 1].replies, Dispatch(F[i - 1].kv, clock, q[i]).reply)]
  IN F[Len(q)]

\* the keyspace without the keys whose expiry time has passed
Purged(kv, clock) ==
  [k \in Keys |-> IF kv[k].present /\ Expired(kv[k], clock) THEN Absent ELSE kv[k]]

\* the ids of a stream are strictly increasing from first to last entry
StrictlyIncreasing(entries) ==
  \A i \in 1..(Len(entries) - 1) : IdLess(entries[i].id, entries[i + 1].id)

\* C1: on a connection whose transaction is active, a command other than
\* MULTI, EXEC and DISCARD is appended to the queue of that connection and
\* answered QUEUED, and it changes neither the keyspace nor what is sent to
\* any replica link.
C1_QueuedUnderMulti ==
  [][(ev'.kind = "recv" /\ transactionState[ev'.conn]
        /\ ev'.cmd.op \notin controlCommands)
       => /\ ev'.reply = encodeSimpleString("QUEUED")
          /\ commandQueues' = [commandQueues EXCEPT ![ev'.conn] = Append(@, ev'.cmd)]
          /\ kvStore' = kvStore
          /\ wire' = wire]_vars

\* C2: an EXEC on a connection with an active transaction that runs to its
\* end replies with the array of the replies of the queued commands, run in
\* queue order, each on the keyspace the one before it left.
C2_ExecRepliesInOrder ==
  [][(ev'.kind = "recv" /\ ev'.cmd.op = "EXEC" /\ transactionState[ev'.conn]
        /\ ev'.out # "block")
       => /\ ev'.out = "reply"
          /\ ev'.reply =
               encodeResultArray(SerialRun(kvStore, now, commandQueues[ev'.conn]).replies)
          /\ kvStore' = SerialRun(kvStore, now, commandQueues[ev'.conn]).kv]_vars

\* C3: between the start of the first and the end of the last queued command
\* of an EXEC, also while one of them waits, no command of another
\* connection is executed against the keyspace.
C3_ExecNotInterleaved ==
  [][\A c \in Conns :
        (pending[c].active /\ pending[c].inExec /\ ev'.kind = "recv" /\ ev'.conn # c)
          => ev'.log = <<>>]_vars

\* C4: every command of the write-set that the primary executed with a reply
\* that is no error is written to every replica link registered at that
\* moment.
C4_WritesForwarded ==
  [][ev'.kind \in {"recv", "resume"}
       => \A l \in replicaConnections :
            wire'[l] = wire[l] \o SuccessfulWrites(ev'.log)]_vars

\* C5: when an EXEC has ended, every write it executed without error is among
\* what was written to each registered replica link during that EXEC.
C5_TransactionWritesForwarded ==
  [][(ev'.kind = "recv" /\ ev'.cmd.op = "EXEC" /\ transactionState[ev'.conn]
        /\ ev'.out = "reply")
       => \A l \in replicaConnections :
            \A i \in 1..Len(SuccessfulWrites(ev'.log)) :
              \E j \in (Len(wire[l]) + 1)..Len(wire'[l]) :
                wire'[l][j] = SuccessfulWrites(ev'.log)[i]]_vars

\* C6: a command whose reply is an error leaves the keyspace as it was and
\* sends nothing to any replica link.
C6_ErrorsChangeNothing ==
  [][(ev'.kind = "recv" /\ ev'.reply.kind = "error")
       => (kvStore' = kvStore /\ wire' = wire)]_vars

\* C7: in every reachable state the ids of the entries of every stream are
\* strictly increasing in (ms, seq) order.
C7_StreamIdsIncrease ==
  \A k \in Keys :
    (kvStore[k].present /\ kvStore[k].type = "stream")
      => StrictlyIncreasing(kvStore[k].stream)

\* C8: XADD with the explicit id 0-0 replies an error and stores no entry,
\* whatever the key holds.
C8_ZeroIdRejected ==
  [][(ev'.kind = "recv" /\ ev'.cmd.op = "XADD" /\ ev'.cmd.id = ExplicitId(0, 0))
       => /\ ev'.reply.kind = "error"
          /\ kvStore'[ev'.cmd.key].stream = kvStore[ev'.cmd.key].stream]_vars

C10_ExpiredReadsAsAbsent ==
  [][(ev'.kind = "recv" /\ ev'.cmd.op \in {"GET", "INCR", "TYPE", "KEYS"}
        /\ Purged(kvStore, now) # kvStore)
       => ev'.reply = Dispatch(Purged(kvStore, now), now, ev'.cmd).reply]_vars

\* the value type a command works on: "undefined" is the entry SET writes
ExpectedType(cmd) ==
  CASE cmd.op \in {"GET", "INCR"} -> "undefined"
    [] cmd.op = "XADD" -> "stream"
    [] OTHER -> "zset"

\* C11: GET, INCR, XADD or ZADD on a key that holds a value of another type
\* replies WRONGTYPE Operation against a key holding the wrong kind of value
\* and leaves the entry unchanged.
C11_WrongTypeRejected ==
  [][(ev'.kind = "recv" /\ ev'.cmd.op \in {"GET", "INCR", "XADD", "ZADD"}
        /\ kvStore[ev'.cmd.key].present
        /\ ~Expired(kvStore[ev'.cmd.key], now)
        /\ kvStore[ev'.cmd.key].type # ExpectedType(ev'.cmd))
       => /\ ev'.reply =
               encodeError("WRONGTYPE Operation against a key holding the wrong kind of value")
          /\ kvStore'[ev'.cmd.key] = kvStore[ev'.cmd.key]]_vars

\* C12: in every reachable state ZRANGE k 0 -1 lists the members of the
\* sorted set k by score ascending, then member ascending, and ZRANK k m is
\* the position of m in that list.
C12_RangeIsSorted ==
  \A k \in Keys :
    (kvStore[k].present /\ kvStore[k].type = "zset")
      => /\ HandleZRange(kvStore, now, CmdZRange(k, 0, -1)).reply =
              encodeArray(MapKeys(SortPairs(kvStore[k].zset)))
         /\ \A i \in 1..Len(kvStore[k].zset) :
              HandleZRank(kvStore, now,
                          CmdZRank(k, SortPairs(kvStore[k].zset)[i].member)).reply =
                encodeInteger(i - 1)


\* the commands a step appended to the socket of link l
Appended(l) == SubSeq(wire'[l], Len(wire[l]) + 1, Len(wire'[l]))

\* the wire bytes of the write commands among cmds
RECURSIVE WriteBytes(_)
WriteBytes(cmds) ==
  IF Len(cmds) = 0 THEN 0
  ELSE (IF isWriteCommand(Head(cmds)) THEN encodeRESPCommand(Head(cmds)) ELSE 0)
         + WriteBytes(Tail(cmds))

\* C13: WAIT n t with n > 0 and a replica connected replies a count that is
\* at most the number of replicas from which, after the GETACK of this WAIT
\* was written, an ACK was read whose offset is at least the primary's offset
\* when WAIT was received.
C13_WaitCountsAcks ==
  [][(ev'.kind = "recv" /\ ev'.cmd.op = "WAIT" /\ parseInt(ev'.cmd.val) > 0
        /\ replicaConnections # {})
       => ev'.reply.n <=
            Cardinality({l \in Links :
              \E i \in (ackSeen[l] + 1)..ackSeen'[l] :
                 replica'[l].acks[i] >= replicationOffset})]_vars

\* C14: whenever commands are written to a replica link, the primary's
\* replication offset (master_repl_offset) grows by the wire bytes of the
\* write commands written.
C14_OffsetCountsPropagatedBytes ==
  [][\A l \in Links :
       Len(wire'[l]) > Len(wire[l])
         => master_repl_offset([offset |-> replicationOffset']) =
              master_repl_offset([offset |-> replicationOffset]) + WriteBytes(Appended(l))]_vars

\* C15: when the replica reads a REPLCONF GETACK * from the link it answers
\* REPLCONF ACK n, n being the bytes of all frames read from the link before
\* this GETACK, and only then adds the bytes of the GETACK to its offset.
C15_AckCarriesBytesBefore ==
  [][\A l \in Links :
       (ev'.kind = "replica" /\ ev'.conn = l /\ isGetAck(ev'.cmd))
         => /\ replica'[l].acks = Append(replica[l].acks, replica[l].received)
            /\ replica'[l].offset = replica[l].received + encodeRESPCommand(CmdGetAck)]_vars

\* C16: on one connection a reply is written only when no earlier request of
\* that connection is still in progress, so replies leave in request order.
C16_RepliesInRequestOrder ==
  [][(ev'.kind = "recv" /\ ev'.reply # Undefined) => ~pending[ev'.conn].active]_vars

\* s can be read off t from left to right, each place of t used at most once
RECURSIVE IsSubSeq(_, _)
IsSubSeq(s, t) ==
  IF Len(s) = 0 THEN TRUE
  ELSE IF Len(t) = 0 THEN FALSE
  ELSE IF Head(s) = Head(t) THEN IsSubSeq(Tail(s), Tail(t))
  ELSE IsSubSeq(s, Tail(t))

\* the commands a step appended to link l, the GETACK of WAIT left out
AppendedWrites(l) == SelectSeq(Appended(l), LAMBDA cmd : ~isGetAck(cmd))

\* C17: what a link carries only grows at its end, and the write commands a
\* step adds to it are commands the primary executed in that step, in the
\* order of their execution and each at most once.
C17_PropagatedInAcceptedOrder ==
  [][\A l \in Links :
       /\ Len(wire'[l]) >= Len(wire[l])
       /\ SubSeq(wire'[l], 1, Len(wire[l])) = wire[l]
       /\ IsSubSeq(AppendedWrites(l), SuccessfulWrites(ev'.log))]_vars

\* two different write commands were propagated to a link one after the other
C17_TwoWritesOnLink ==
  \E l \in Links : \E i \in 1..(Len(wire[l]) - 1) :
     /\ isWriteCommand(wire[l][i]) /\ isWriteCommand(wire[l][i + 1])
     /\ wire[l][i] # wire[l][i + 1]

\* C18: a connection that has closed has no subscription set, no transaction
\* flag and no queue left, and a connection that opens is neither inside a
\* transaction nor in subscription mode.
C18_ClosedConnectionForgotten ==
  /\ \A c \in Conns :
       ~sockets[c].open
         => subscriptions[c] = {} /\ ~transactionState[c] /\ commandQueues[c] = <<>>
  /\ ev.kind = "connopen"
       => ~transactionState[ev.conn] /\ subscriptions[ev.conn] = {}

\* the commands the specification lets through in subscription mode
SubscriptionModeCommands ==
  {"PING", "SUBSCRIBE", "UNSUBSCRIBE", "PSUBSCRIBE", "PUNSUBSCRIBE", "QUIT"}

C20_PublishReachesSubscribers ==
  [][(ev'.kind = "recv" /\ ev'.cmd.op = "PUBLISH" /\ ev'.reply.kind = "integer")
       => /\ \A c \in Conns :
               pushed'[c] =
                 IF ev'.cmd.key \in subscriptions[c]
                 THEN Append(pushed[c], encodePublishMessage(ev'.cmd.key, ev'.cmd.val))
                 ELSE pushed[c]
          /\ ev'.reply.n = Cardinality({c \in Conns : pushed'[c] # pushed[c]})]_vars

\* C21: UNSUBSCRIBE with no arguments, executed for a connection, leaves the
\* connection with an empty subscription set, hence outside subscription mode.
C21_UnsubscribeAll ==
  [][(ev'.kind = "recv" /\ ev'.cmd = CmdUnsubscribeAll
        /\ ev'.reply # encodeSimpleString("QUEUED"))
       => /\ subscriptions'[ev'.conn] = {}
          /\ ~isInSubscriptionMode(Server', ev'.conn)]_vars

\* the sequence number the auto-sequence rule gives for ms
RuleSeq(entries, ms) ==
  IF Len(entries) = 0 /\ ms = 0 THEN 1
  ELSE IF \E i \in 1..Len(entries) : entries[i].id[1] = ms
  THEN MaxSeqFor(entries, ms) + 1
  ELSE 0

\* C22: XADD k <ms>-* on an absent key or a stream, where the id of the rule
\* is above the last id of the stream, stores and returns <ms>-<seq> with seq
\* = 1 for ms = 0 on an empty stream, the largest seq stored for ms plus one
\* when ms is stored, and 0 otherwise.
C22_AutoSequence ==
  [][(ev'.kind = "recv" /\ ev'.cmd.op = "XADD" /\ ev'.cmd.id.form = "autoseq"
        /\ ev'.cmd.id.ms # NaN
        /\ (~kvStore[ev'.cmd.key].present \/ kvStore[ev'.cmd.key].type = "stream")
        /\ (Len(kvStore[ev'.cmd.key].stream) > 0
              => IdLess(Last(kvStore[ev'.cmd.key].stream).id,
                        <<ev'.cmd.id.ms,
                          RuleSeq(kvStore[ev'.cmd.key].stream, ev'.cmd.id.ms)>>)))
       => /\ ev'.reply =
               encodeBulkId(<<ev'.cmd.id.ms,
                              RuleSeq(kvStore[ev'.cmd.key].stream, ev'.cmd.id.ms)>>)
          /\ kvStore'[ev'.cmd.key].stream =
               Append(kvStore[ev'.cmd.key].stream,
                      StreamEntry(ev'.cmd.id.ms,
                                  RuleSeq(kvStore[ev'.cmd.key].stream, ev'.cmd.id.ms)))]_vars

\* C23: XREAD with the id $ takes the last id of the stream when the command
\* is received and keeps it: at that moment nothing is returned (without
\* BLOCK the reply is empty, with BLOCK the command waits), the id a waiting
\* command holds never changes, and the reply it wakes with holds exactly the
\* entries above that id.
C23_DollarFrozenAtReceipt ==
  [][/\ (ev'.kind = "recv" /\ ev'.cmd.op = "XREAD" /\ ev'.cmd.id.form = "dollar")
          => IF ev'.cmd.block = NoBlock
             THEN ev'.reply = EmptyArray
             ELSE /\ ev'.out = "block"
                  /\ pending'[ev'.conn].startId =
                       ResolveId(kvStore, ev'.cmd.key, ev'.cmd.id)
     /\ \A c \in Conns :
          (pending[c].active /\ pending'[c].active)
            => pending'[c].startId = pending[c].startId
     /\ (ev'.kind = "resume" /\ ev'.reply.kind = "xread")
          => ev'.reply =
               encodeXReadResponse(SelectAfter(kvStore[pending[ev'.conn].key].stream,
                                               pending[ev'.conn].startId))]_vars

\* the stream a waiting XREAD of connection c reads holds an entry above its id
EntryArrived(c) ==
  /\ pending[c].active
  /\ processXRead(kvStore, pending[c].key, pending[c].startId) # EmptyArray

\* the time a waiting XREAD BLOCK t of connection c allows, t > 0, has passed
TimedOut(c) ==
  /\ pending[c].active
  /\ pending[c].timeout > 0
  /\ now - pending[c].start >= pending[c].timeout

\* C24: once an XADD has stored an entry above the id of a waiting XREAD, the
\* XREAD replies with entries; once its time t > 0 has passed it replies; and
\* the null array is only replied after a time t > 0 has passed.
C24_BlockedReadWakes ==
  /\ \A c \in Conns :
       EntryArrived(c) ~> (ev.kind = "resume" /\ ev.conn = c /\ ev.reply.kind = "xread")
  /\ \A c \in Conns : TimedOut(c) ~> ~pending[c].active
  /\ [][(ev'.kind = "resume" /\ ev'.reply = NullArray) => TimedOut(ev'.conn)]_vars

\* C25: INCR k on an absent key stores and replies 1; on a live string that
\* is the decimal form of an integer n below the 64-bit signed maximum it
\* stores and replies n + 1; on every other live value it replies ERR value is
\* not an integer or out of range and leaves the key as it was.
C25_IncrOnlyOnIntegers ==
  [][(ev'.kind = "recv" /\ ev'.cmd.op = "INCR"
        /\ ~(kvStore[ev'.cmd.key].present /\ Expired(kvStore[ev'.cmd.key], now)))
       => IF ~kvStore[ev'.cmd.key].present
          THEN /\ ev'.reply = encodeInteger(1)
               /\ kvStore'[ev'.cmd.key].str = IntStr(1)
          ELSE IF /\ kvStore[ev'.cmd.key].type = "undefined"
                  /\ kvStore[ev'.cmd.key].str.kind = "int"
                  /\ kvStore[ev'.cmd.key].str.n < Int64Max
          THEN /\ ev'.reply = encodeInteger(kvStore[ev'.cmd.key].str.n + 1)
               /\ kvStore'[ev'.cmd.key].str = IntStr(kvStore[ev'.cmd.key].str.n + 1)
          ELSE /\ ev'.reply = encodeError("ERR value is not an integer or out of range")
               /\ kvStore'[ev'.cmd.key] = kvStore[ev'.cmd.key]]_vars

\* C26: when DISCARD ends the open transaction of a connection, none of the
\* commands the connection sent since its MULTI has been run or is run, the
\* queue is empty (a later MULTI ... EXEC finds nothing of it), the
\* transaction is no longer active, and a command of a connection without an
\* open transaction is run at once, never queued.
C26_DiscardDropsQueue ==
  [][/\ (ev'.kind = "recv" /\ ev'.cmd.op = "DISCARD" /\ transactionState[ev'.conn])
        => /\ ev'.reply = encodeSimpleString("OK")
           /\ ~transactionState'[ev'.conn]
           /\ commandQueues'[ev'.conn] = <<>>
           /\ kvStore' = kvStore
           /\ ~txnRan[ev'.conn]
     /\ (ev'.kind = "recv" /\ ~transactionState[ev'.conn]
         /\ ev'.cmd.op \notin controlCommands)
        => ev'.reply # encodeSimpleString("QUEUED")]_vars

\* C27: every command received from a client connection is answered: the
\* handler that ends, at once or after a blocking read woke or timed out,
\* ends with a reply, on a primary and on a replica, for reads and writes.
C27_EveryCommandAnswered ==
  [][(ev'.kind \in {"recv", "resume"} /\ ev'.out # "block")
       => ev'.reply # Undefined]_vars

\* C28: a replay executes exactly the commands whose frames were appended,
\* once each and in file order, executes nothing made of the bytes of a
\* frame that is not complete, and leaves the file as it was.
C28_ReplayExecutesTheFrames ==
  [][(phase' = "replayed" /\ phase # "replayed")
       => (executed' = frames /\ aofContent' = aofContent)]_vars

\* C29: for one command, the count of calculateRESPCommandBytes, the number
\* of bytes of the frame of encodeRESPCommand and the number of bytes the
\* parser consumes of that frame are the same.
C29_ByteCountsAgree ==
  (phase = "parsed" /\ counts.calculated # 0)
    => (counts.calculated = counts.encoded /\ counts.encoded = counts.consumed)

\* the bytes of the frames of the commands fs
RECURSIVE FrameBytes(_)
FrameBytes(fs) ==
  IF fs = <<>> THEN 0
  ELSE Len(BufferFrom(encodeRESPCommandString(Head(fs)))) + FrameBytes(Tail(fs))

\* C30: however the bytes of the commands are split over data events, the
\* commands executed are the commands sent, in order and once each, each
\* only when all its bytes have arrived, each with one reply; no error is
\* written and once every byte has arrived every command has been executed.
C30_SplitCommandRunsOnce ==
  /\ \A i \in 1..Len(written) : written[i] = "reply"
  /\ Len(written) = Len(executed)
  /\ Len(executed) <= Len(frames)
  /\ executed = SubSeq(frames, 1, Len(executed))
  /\ FrameBytes(executed) <= FrameBytes(frames) - Len(inbox)
  /\ inbox = <<>> => executed = frames

\* an EXEC is in progress: its handler waits inside a queued blocking read
ExecInProgress(c) == pending[c].active /\ pending[c].inExec

\* C38: whenever no EXEC is being executed the server-wide
\* executingTransaction flag is false, also after an EXEC in which a queued
\* command threw.
C38_FlagOnlyDuringExec ==
  executingTransaction => \E c \in Conns : ExecInProgress(c)

\* C39: while the EXEC of connection A is in progress, a command other than
\* MULTI, EXEC and DISCARD of another connection B with an open transaction
\* is appended to the queue of B and answered QUEUED, and is not executed.
C39_QueuedDuringOtherExec ==
  [][(/\ ev'.kind = "recv"
      /\ transactionState[ev'.conn]
      /\ ev'.cmd.op \notin controlCommands
      /\ \E a \in Conns \ {ev'.conn} : ExecInProgress(a))
       => (/\ ev'.reply = encodeSimpleString("QUEUED")
           /\ commandQueues'[ev'.conn] = Append(commandQueues[ev'.conn], ev'.cmd)
           /\ ev'.log = <<>>)]_vars

\* C33: a PSYNC ? -1 writes the FULLRESYNC line, then the header of the
\* snapshot and exactly as many bytes as the header says and nothing after
\* them, and registers the link with no command written to it in between; a
\* link carries commands only while registered, after its snapshot; any
\* other PSYNC registers nothing and writes no snapshot.
C33_SnapshotBeforeRegistration ==
  [][\A l \in Links :
       /\ (ev'.kind = "psync" /\ ev'.conn = l /\ ev'.cmd.pairs = <<"?", "-1">>)
            => /\ Len(linkOut'[l].items) = 3
               /\ linkOut'[l].items[1] =
                    encodeFullResync(master_repl_offset([offset |-> replicationOffset]))
               /\ linkOut'[l].items[2].kind = "rdbheader"
               /\ linkOut'[l].items[3].kind = "rdbpayload"
               /\ linkOut'[l].items[3].n = linkOut'[l].items[2].n
               /\ linkOut'[l].at = Len(wire[l])
               /\ wire' = wire
               /\ replicaConnections' = replicaConnections \cup {l}
       /\ (ev'.kind = "psync" /\ ev'.conn = l /\ ev'.cmd.pairs # <<"?", "-1">>)
            => /\ linkOut'[l].items = <<>>
               /\ replicaConnections' = replicaConnections
               /\ ev'.reply.kind = "error"
       /\ Len(wire'[l]) > Len(wire[l])
            => /\ l \in replicaConnections
               /\ Len(linkOut[l].items) = 3
               /\ linkOut[l].at <= Len(wire[l])]_vars

\* a link was registered by PSYNC ? -1 and then carried a propagated command
C33_LinkCarriesCommand ==
  \E l \in Links :
     /\ l \in replicaConnections
     /\ Len(linkOut[l].items) = 3
     /\ Len(wire[l]) > linkOut[l].at

AllApplied(l) ==
  /\ l \in replicaConnections
  /\ replica[l].next > Len(wire[l])
  /\ delivered[l] = 1..Len(replica[l].applied)

\* C35: once a replica has applied all the propagated writes, its keyspace
\* is what executing them one after another in their order on the link gives.
C35_AppliedInLinkOrder ==
  \A l \in Links :
     AllApplied(l)
       => replicaKv[l] = SerialRun([k \in Keys |-> Absent], now, replica[l].applied).kv

\* C36: when a replica writes REPLCONF ACK n, every write command in the
\* first n bytes of the stream has been executed on the replica's keyspace.
C36_AckAfterApply ==
  [][\A l \in Links :
       (ev'.kind = "replica" /\ ev'.conn = l
          /\ Len(replica'[l].acks) > Len(replica[l].acks))
         => /\ replica'[l].acks[Len(replica'[l].acks)] = replica[l].offset
            /\ delivered[l] = 1..Len(replica[l].applied)]_vars

\* the frames the primary wrote, as one buffer
RECURSIVE streamOf(_)
streamOf(fs) ==
  IF fs = <<>> THEN <<>>
  ELSE BufferFrom(encodeRESPCommandString(Head(fs))) \o streamOf(Tail(fs))

\* C37: however the stream was split into reads, once the replica has read
\* all of it the commands it consumed and its offset are those of the stream
\* read in one piece, and the offset is the number of bytes received.
C37_SplitIndependent ==
  inbox = <<>>
    => /\ replicaStream.commands = onPropagatedData(StreamStart, streamOf(frames)).commands
       /\ replicaStream.offset = onPropagatedData(StreamStart, streamOf(frames)).offset
       /\ replicaStream.offset = Len(streamOf(frames))

\* the commands of the handshake sent so far are the first ones in order
SentInOrder ==
  /\ Len(handshake.sent) <= Len(HandshakeCommands)
  /\ \A i \in 1..Len(handshake.sent) : handshake.sent[i] = HandshakeCommands[i]

\* a command was sent only after the expected reply to the one before it
SentAfterReply ==
  \A i \in 2..Len(handshake.sent) :
     /\ Len(handshake.replies) >= i - 1
     /\ handshake.replies[i - 1] = expectedReply(i - 1)

\* what was taken off the buffer is the line, then the whole snapshot, then
\* commands
Consumed ==
  IF Len(handshake.consumed) >= 2 /\ SubSeq(handshake.consumed, 1, 2) = <<"line1", "line2">>
  THEN <<"line">> \o SubSeq(handshake.consumed, 3, Len(handshake.consumed))
  ELSE handshake.consumed

SnapshotBeforeCommands ==
  /\ Len(Consumed) \notin {2, 3}
  /\ \A i \in 1..Len(Consumed) :
       Consumed[i] = IF i <= 4 THEN <<"line", "hdr", "rdb1", "rdb2">>[i] ELSE "cmd"

\* an unexpected reply ended the handshake and no command was processed
UnexpectedReplyEnds ==
  (\E i \in 1..Len(handshake.replies) : handshake.replies[i] # expectedReply(i))
    => handshake.stage = "failed" /\ "cmd" \notin SetOf(handshake.consumed)

\* C31: the replica sends PING, REPLCONF listening-port, REPLCONF capa and
\* PSYNC in this order, each after the expected reply to the one before; it
\* processes commands only after the FULLRESYNC line and the whole snapshot
\* were consumed; an unexpected reply ends the handshake with no command
\* processed.
C31_HandshakeInOrder ==
  /\ SentInOrder
  /\ SentAfterReply
  /\ SnapshotBeforeCommands
  /\ UnexpectedReplyEnds
  /\ "cmd" \in SetOf(handshake.consumed) => handshake.stage \in {"streaming", "closed"}

\* the handshake completed and a propagated command was processed
C31_CommandAfterSnapshot ==
  /\ handshake.stage = "streaming"
  /\ Len(handshake.sent) = 4
  /\ Consumed = <<"line", "hdr", "rdb1", "rdb2", "cmd">>

\* C32: once the primary is reachable the replica eventually completes the
\* handshake, whatever failed before.
C32_EventuallyStreaming == masterUp ~> (handshake.stage = "streaming")

\* C40: a replica that completed the handshake keeps the connection to its
\* primary, which never closes it, however long nothing arrives.
C40_LinkStaysOpen ==
  [][handshake.stage = "streaming" => handshake'.stage = "streaming"]_vars
====
